---------------------------- MODULE Spec2Model ----------------------------
(***************************************************************************)
(* Banking Rates Dashboard (AuroreLLC/Bank-Rates-Docker).                  *)
(*                                                                         *)
(* The specifications, over one set of variables:                         *)
(*   Spec      - one browser session driving the rerun cycle of app.py:    *)
(*               bootstrap, controller construction, authentication,       *)
(*               logging, section routing;                                 *)
(*   SpecPerm  - UserPermissionManager and the section lists as functions  *)
(*               of (configuration, username, permission);                 *)
(*   SpecFetch - FredSeries.run_pipeline, step by step;                    *)
(*   SpecCache - the memoized loaders of DataProcessor, called by two      *)
(*               sessions;                                                 *)
(*   SpecRates - the custom rates of two sessions and the combined         *)
(*               summary;                                                  *)
(*   SpecSess  - the general session-state manager used by two sessions;   *)
(*   SpecRoute - section routing with handlers that can fail;              *)
(*   SpecScrape - the FHLB and Farmer Mac scrapes under WebDriverContext;  *)
(*   SpecLog   - the rotating file sinks of LoggerConfig over the days;    *)
(*   SpecWeighted - create_weighted_custom_rate;                           *)
(*   SpecFilter - DataFilterer.filter_by_date_range;                       *)
(*   SpecRange - the date-range tabs of the FRED and custom-rate views;    *)
(*   SpecActivity - UserActivityAnalytics over an activity log;            *)
(*   SpecGlossary - filter_and_sort_rates of the glossary view;            *)
(*   SpecNotif - notifications and error history with their timestamps;    *)
(*   SpecParse - FHLBScraper.parse_rates over bounded tables;              *)
(*   SpecList  - add_to_list with and without a max_length;                *)
(*   SpecUsage - usage.log under the interleaving of session threads;      *)
(*   SpecPdf   - generate_pdf_from_df over data frames of every length;    *)
(*   SpecFav   - the favorites list of the glossary view.                  *)
(* A specification leaves the variables of the others at their initial     *)
(* values.                                                                 *)
(***************************************************************************)
EXTENDS Integers, Sequences, FiniteSets, TLC

(***************************************************************************)
(* Bounds of the model.                                                    *)
(***************************************************************************)
\* number of login/logout messages one behaviour may emit
MaxLog == 4
\* the ghost counter of reruns inside one login saturates here
MaxReruns == 3
\* SpecCache: the loader calls of one behaviour
MaxClock == 3
\* SpecRates: the save and summary calls of one behaviour
MaxRateCalls == 5
\* SpecSess: the session-manager calls of one behaviour
MaxSessOps == 3
\* SpecRoute: the error records one behaviour may log
MaxRouteLog == 2
\* SpecScrape: the browsers one behaviour may launch
MaxLaunches == 4
\* SpecLog: the days one behaviour runs over
MaxDay == 3
\* SpecWeighted: the dates a series may have
MaxDate == 3
\* SpecFilter: the rows of the daily series
DailyRows == 5
\* SpecActivity: the rows of the activity log
MaxLogRows == 4
\* SpecGlossary: the terms of the glossary
MaxTerms == 3
\* SpecNotif: the hours one behaviour runs over
MaxHours == 2
\* SpecNotif: the entries a list may hold
MaxEntries == 2
\* SpecParse: the data rows of a table
MaxDataRows == 2
\* SpecList: the add_to_list calls of one behaviour
MaxListOps == 4
\* SpecUsage: the logging.info calls of one behaviour
MaxUsageLines == 2
\* SpecPdf: the rows of the largest data frame
MaxPdfRows == 80
\* SpecFav: the button clicks of one behaviour
MaxFavOps == 4

(***************************************************************************)
(* Python values.  None is the string "None"; an absent key of             *)
(* st.session_state is a key outside the field "present".                  *)
(***************************************************************************)
None == "None"

\* auth_manager.py:242-250 / 151-152: the seven authentication keys
auth_keys ==
    {"authentication_status", "username", "name", "login_processed",
     "visit_count", "last_login", "is_guest"}

\* the value a field of the record holds while its key is absent
BlankValue(k) ==
    CASE k = "visit_count" -> 0
      [] k = "is_guest" -> FALSE
      [] k = "app_initialized" -> FALSE
      [] k = "custom_rates" -> {}
      [] OTHER -> None

\* st.session_state of a brand new session: no key at all
EmptySessionState ==
    [present |-> {},
     authentication_status |-> None, username |-> None, name |-> None,
     login_processed |-> None, visit_count |-> 0, last_login |-> None,
     is_guest |-> FALSE, app_initialized |-> FALSE, custom_rates |-> {}]

\* key in st.session_state
Has(s, k) == k \in s.present
\* st.session_state[k] = v
Put(s, k, v) == [s EXCEPT !.present = @ \cup {k}, ![k] = v]
\* del st.session_state[k]
Del(s, k) == [s EXCEPT !.present = @ \ {k}, ![k] = BlankValue(k)]
\* st.session_state.get(k, default)
Get(s, k, default) == IF Has(s, k) THEN s[k] ELSE default
\* if k not in st.session_state: st.session_state[k] = v
Seed(s, k, v) == IF Has(s, k) THEN s ELSE Put(s, k, v)

(***************************************************************************)
(* UserPermissionManager (auth_manager.py:197-233).                        *)
(* A configuration maps each configured username to its role, or to NoRole *)
(* when the entry has no role field.                                       *)
(***************************************************************************)
NoRole == "<no role field>"

Permissions ==
    {"view_data", "download_data", "create_custom_rates", "view_logs", "manage_users"}

\* has_permission: the literal role_permissions table
role_permissions ==
    [admin |-> {"view_data", "download_data", "create_custom_rates", "view_logs", "manage_users"},
     power_user |-> {"view_data", "download_data", "create_custom_rates"},
     user |-> {"view_data", "download_data"},
     guest |-> {"view_data", "download_data"}]

\* mutant of get_user_role: a missing entry or role field defaults to admin
get_user_role_default_admin(cfg, username) ==
    IF username = "guest" THEN "guest"
    ELSE IF username \in DOMAIN cfg /\ cfg[username] # NoRole THEN cfg[username]
    ELSE "admin"

get_user_role(cfg, username) ==
    IF username = "guest" THEN "guest"
    ELSE IF username \in DOMAIN cfg
         THEN (IF cfg[username] = NoRole THEN "user" ELSE cfg[username])
         ELSE "user"

\* permission in role_permissions.get(role, [])
has_permission(cfg, username, permission) ==
    LET role == get_user_role(cfg, username)
    IN  IF role \in DOMAIN role_permissions
        THEN permission \in role_permissions[role]
        ELSE FALSE

(***************************************************************************)
(* Section lists (app_controller.py:230-251).                              *)
(***************************************************************************)
FRED == "FRED Rates"
FHLB == "FHLB Rates"
FarmerMac == "Farmer Mac Rates"
Glossary == "Financial Glossary"
CustomRateBuilder == "Custom Rate Builder"
AdminDashboard == "Admin Dashboard"
GuestFRED == "FRED Rates (Limited View)"
GuestFHLB == "FHLB Rates (Limited View)"
UnknownSection == "No Such Section"

\* list.insert(i, x) with a zero-based index i <= len(list)
ListInsert(list, i, x) ==
    SubSeq(list, 1, i) \o <<x>> \o SubSeq(list, i + 1, Len(list))

get_guest_sections == <<GuestFRED, GuestFHLB, Glossary>>

\* mutant of get_available_sections: the builder is appended, not inserted at 1
get_available_sections_appended(cfg, username) ==
    LET base == <<FRED, FHLB, FarmerMac, Glossary>>
        withBuilder ==
            IF has_permission(cfg, username, "create_custom_rates")
            THEN Append(base, CustomRateBuilder) ELSE base
    IN  IF has_permission(cfg, username, "manage_users")
        THEN Append(withBuilder, AdminDashboard) ELSE withBuilder

get_available_sections(cfg, username) ==
    LET base_sections == <<FRED, FHLB, FarmerMac, Glossary>>
        withBuilder ==
            IF has_permission(cfg, username, "create_custom_rates")
            THEN ListInsert(base_sections, 1, CustomRateBuilder) ELSE base_sections
    IN  IF has_permission(cfg, username, "manage_users")
        THEN Append(withBuilder, AdminDashboard) ELSE withBuilder

(***************************************************************************)
(* AuthenticationManager and the auth SessionStateManager, as functions of *)
(* the session state s (auth_manager.py).  An operation that logs returns  *)
(* the new session state and the messages it passed to logging.info.       *)
(* A message f'{username},{event},{count}' is the tuple of its fields.     *)
(***************************************************************************)
\* SessionStateManager.initialize_auth_session
initialize_auth_session(s) ==
    LET s1 == Seed(s, "authentication_status", None)
        s2 == Seed(s1, "username", None)
        s3 == Seed(s2, "name", None)
        s4 == Seed(s3, "login_processed", None)
        s5 == Seed(s4, "visit_count", 0)
        s6 == Seed(s5, "last_login", None)
    IN  Seed(s6, "is_guest", FALSE)

\* del st.session_state[k] for every k of ks that is present
DelAll(s, ks) ==
    [k \in DOMAIN s |->
        IF k = "present" THEN s.present \ ks
        ELSE IF k \in ks THEN BlankValue(k) ELSE s[k]]

\* SessionStateManager.clear_auth_session
clear_auth_session(s) == DelAll(s, auth_keys)

is_authenticated(s) ==
    LET auth_status == Get(s, "authentication_status", "False")
    IN  auth_status = "True" \/ auth_status = "guest"

is_guest(s) == Get(s, "is_guest", FALSE)

is_regular_user(s) == Get(s, "authentication_status", "False") = "True"

get_authentication_status(s) == Get(s, "authentication_status", None)

get_current_user(s) ==
    IF is_authenticated(s) THEN Get(s, "username", None) ELSE None

get_current_user_name(s) ==
    IF is_authenticated(s) THEN Get(s, "name", None) ELSE None

\* the visit_count bookkeeping shared by _login_as_guest and process_login
CountVisit(s) ==
    IF ~Has(s, "visit_count") THEN Put(s, "visit_count", 1)
    ELSE Put(s, "visit_count", s.visit_count + 1)

\* _login_as_guest, up to st.rerun()
login_as_guest(s) ==
    LET s1 == Put(s, "authentication_status", "guest")
        s2 == Put(s1, "username", "guest")
        s3 == Put(s2, "name", "Guest")
        s4 == Put(s3, "is_guest", TRUE)
        s5 == CountVisit(s4)
    IN  [s |-> Put(s5, "login_processed", "True"),
         out |-> << <<"guest", "login", s5.visit_count>> >>]

\* mutant of process_login: the login_processed guard is dropped
process_login_unguarded(s) ==
    IF is_authenticated(s)
    THEN LET s1 == CountVisit(s)
         IN  [s |-> Put(s1, "login_processed", "True"),
              out |-> << <<get_current_user(s1), "login", s1.visit_count>> >>]
    ELSE [s |-> s, out |-> << >>]

\* process_login
process_login(s) ==
    IF is_authenticated(s) /\ ~Has(s, "login_processed")
    THEN LET s1 == CountVisit(s)
         IN  [s |-> Put(s1, "login_processed", "True"),
              out |-> << <<get_current_user(s1), "login", s1.visit_count>> >>]
    ELSE [s |-> s, out |-> << >>]

\* mutant of logout_guest: is_guest is missing from guest_keys
logout_guest_keeps_flag(s) ==
    [s |-> DelAll(s, auth_keys \ {"is_guest"}), out |-> << <<"guest", "logout", 0>> >>]

\* _logout_guest, up to st.rerun()
logout_guest(s) ==
    [s |-> DelAll(s, auth_keys), out |-> << <<"guest", "logout", 0>> >>]

\* cleanup_session_on_failed_auth
cleanup_session_on_failed_auth(s) ==
    IF Has(s, "login_processed") THEN Del(s, "login_processed") ELSE s

\* render_user_info_sidebar, its last lines: last_login is set when absent
capture_last_login(s) ==
    IF ~Has(s, "last_login") THEN Put(s, "last_login", "timestamp") ELSE s

(***************************************************************************)
(* The credential authenticator (streamlit_authenticator), by the contract *)
(* its two call sites rely on: login() acts while authentication_status    *)
(* is neither true nor "guest" and stores the outcome of a submitted form; *)
(* logout() clears the three markers when its button was clicked.          *)
(***************************************************************************)
DisplayName(u) == "Name of " \o u

authenticator_shows_form(s) ==
    Get(s, "authentication_status", None) \in {None, "False"}

authenticator_login(s, ev) ==
    LET s0 == Seed(Seed(Seed(s, "authentication_status", None), "username", None),
                   "name", None)
    IN  IF ~authenticator_shows_form(s0) THEN s0
        ELSE IF ev.kind = "submit_ok"
             THEN Put(Put(Put(s0, "name", DisplayName(ev.arg)), "username", ev.arg),
                      "authentication_status", "True")
        ELSE IF ev.kind = "submit_bad"
             THEN Put(s0, "authentication_status", "False")
        ELSE s0

authenticator_logout(s) ==
    Put(Put(Put(s, "name", None), "username", None), "authentication_status", None)

(***************************************************************************)
(* Logging (lib/logger_setup.py, auth_manager.py:29-39).  The root logger  *)
(* holds a set of sinks: "app" stands for the handlers LoggerConfig        *)
(* attaches (logs/Bank-Rates.log, the error file, the console), "usage"    *)
(* for the FileHandler logging.basicConfig would attach to usage.log.      *)
(***************************************************************************)
Header == <<"timestamp", "username", "event", "visit_count">>

\* LoggerConfig._setup_logger: handlers.clear(), then its own handlers
setup_logger(handlers) == {"app"}

\* logging.basicConfig(filename=...): does nothing if the root logger
\* already has handlers
basicConfig(handlers, sink) == IF handlers = {} THEN {sink} ELSE handlers

\* format "%(asctime)s,%(message)s": a row of usage.log
UsageRow(msg) == <<"asctime">> \o msg

\* format "asctime | level | name | funcName:lineno | message"
AppRow(msg) == <<"asctime", "INFO", "root", msg>>

RECURSIVE FormatAll(_, _)
FormatAll(msgs, fmt) ==
    IF msgs = << >> THEN << >>
    ELSE <<IF fmt = "usage" THEN UsageRow(Head(msgs)) ELSE AppRow(Head(msgs))>>
         \o FormatAll(Tail(msgs), fmt)

\* AuthenticationManager._setup_logging: the file is created with its header
\* only when it does not exist (an empty sequence is a missing file)
ensure_log_file(file) == IF file = << >> THEN <<Header>> ELSE file

(***************************************************************************)
(* Section routing (app_controller.py:253-301, 373-398).  The result is    *)
(* the view that was rendered and the banner that was shown.               *)
(***************************************************************************)
NoView == "none"
Shown(view, banner) == [view |-> view, banner |-> banner]

section_handlers == {FRED, CustomRateBuilder, FHLB, FarmerMac, Glossary, AdminDashboard}
guest_handlers == {GuestFRED, GuestFHLB, Glossary}
SectionNames == section_handlers \cup guest_handlers \cup {UnknownSection}

\* _handle_admin_dashboard
handle_admin_dashboard(cfg, s) ==
    IF is_guest(s) THEN Shown(NoView, "guest denied")
    ELSE IF ~has_permission(cfg, get_current_user(s), "manage_users")
         THEN Shown(NoView, "warning")
    ELSE Shown(AdminDashboard, "none")

\* mutant of route_to_section: the builder's permission check is missing
route_to_section_unchecked(cfg, s, section) ==
    IF section \notin section_handlers THEN Shown(NoView, "unknown section")
    ELSE IF section = AdminDashboard
            /\ ~has_permission(cfg, get_current_user(s), "manage_users")
         THEN Shown(NoView, "warning")
    ELSE IF section = AdminDashboard THEN handle_admin_dashboard(cfg, s)
    ELSE Shown(section, "none")

\* _route_to_section
route_to_section(cfg, s, section) ==
    LET username == get_current_user(s)
    IN  IF section \notin section_handlers THEN Shown(NoView, "unknown section")
        ELSE IF section = CustomRateBuilder
                /\ ~has_permission(cfg, username, "create_custom_rates")
             THEN Shown(NoView, "warning")
        ELSE IF section = AdminDashboard
                /\ ~has_permission(cfg, username, "manage_users")
             THEN Shown(NoView, "warning")
        ELSE IF section = AdminDashboard THEN handle_admin_dashboard(cfg, s)
        ELSE Shown(section, "none")

\* _route_to_guest_section
route_to_guest_section(section) ==
    IF section \in guest_handlers THEN Shown(section, "none")
    ELSE Shown(NoView, "unknown section")

(***************************************************************************)
(* The session of Spec.                                                    *)
(***************************************************************************)
\* config.yaml, credentials.usernames: one user per role and one without role
AppConfig ==
    [admin1 |-> "admin", pat |-> "power_user", uma |-> "user", nora |-> NoRole]

\* names under which the Custom Rate Builder view can save a series
RateNames == {"Prime Rate + 2.0", "60% Prime Rate + 40% SOFR"}

VARIABLES
    pc,            \* position of the script run: idle, rerun, main, construct, ...
    ss,            \* st.session_state of the session
    event,         \* the widget interaction that triggered the current run
    widgets,       \* widgets rendered so far by the current (or last) run
    rendered,      \* result of the section routing of the current run
    offered,       \* section list offered by the current run
    rootHandlers,  \* sinks attached to the root logger of the process
    usageLog,      \* lines of usage.log (empty: the file does not exist)
    appLog,        \* login/logout records in logs/Bank-Rates.log
    emitted,       \* messages the Authentication Manager passed to logging.info
    configExists,  \* config.yaml exists
    fredKey,       \* FRED_API_KEY of the process environment ("" when unset)
    built,         \* the current run constructed the Application Controller
    runCalled,     \* the current run called app_controller.run()
    outcome,       \* how the last finished run ended
    loginLines,    \* login lines emitted since the current login began
    visitIncs,     \* visit_count increments since the current login began
    reruns         \* runs finished since the current login began (saturating)

mainVars ==
    <<pc, ss, event, widgets, rendered, offered, rootHandlers, usageLog, appLog,
      emitted, configExists, fredKey, built, runCalled, outcome, loginLines,
      visitIncs, reruns>>

VARIABLES
    pStage,        \* SpecPerm: "input", then the name of the function applied
    pCfg,          \* SpecPerm: credentials.usernames of the configuration
    pUser,         \* SpecPerm: the username argument
    pPerm,         \* SpecPerm: the permission argument
    pAllowed,      \* SpecPerm: result of has_permission
    pSections      \* SpecPerm: result of a section-list function

permVars == <<pStage, pCfg, pUser, pPerm, pAllowed, pSections>>

VARIABLES
    fpc,           \* SpecFetch: position inside run_pipeline
    fKey,          \* SpecFetch: FredSeries.api_key
    fSource,       \* SpecFetch: FredSeries.source, the base URL
    fSeries,       \* SpecFetch: the series_id argument
    fResponse,     \* SpecFetch: what the HTTP exchange does if it is attempted
    fPayload,      \* SpecFetch: value returned by _fetch_data
    fResult,       \* SpecFetch: what run_pipeline returned or raised
    fHttpCalls,    \* SpecFetch: calls of session.get
    fLogged        \* SpecFetch: levels of the records logged by the pipeline

fetchVars == <<fpc, fKey, fSource, fSeries, fResponse, fPayload, fResult,
               fHttpCalls, fLogged>>

VARIABLES
    cClock,        \* cache: the wall clock of the process, in ticks
    cCache,        \* cache: st.cache_data store, per call: {} or {value}
    cRuns,         \* cache: runs of the fetch/scrape pipeline, per call
    cFirst,        \* cache: the first result returned for a call, and to whom
    cRet,          \* cache: what the last loader call returned or raised
    cRates,        \* cache: st.session_state.custom_rates of each session
    cSummary,      \* cache: what the last get_combined_rate_summary returned, and when
    cSaved,        \* cache: per session and name, the series last saved
    cSaves         \* cache: per session and name, the saves so far

cacheVars == <<cClock, cCache, cRuns, cFirst, cRet, cRates, cSummary, cSaved,
               cSaves>>

VARIABLES
    sHeap,         \* SpecSess: the lists and dicts of the process, by object identity
    sSess,         \* SpecSess: st.session_state of each session, key -> value
    sOps,          \* SpecSess: session-manager calls so far
    sActor         \* SpecSess: the session whose handler ran last

sessVars == <<sHeap, sSess, sOps, sActor>>

VARIABLES
    rpc,           \* SpecRoute: "select" before the content of a run, "done" after it
    rSs,           \* SpecRoute: st.session_state of the session
    rRoute,        \* SpecRoute: what the routing call of the last run did
    rLog           \* SpecRoute: error records logged by the controller

routeVars == <<rpc, rSs, rRoute, rLog>>

VARIABLES
    scPc,          \* SpecScrape: "idle", "enter", "body", "exit" or "after"
    scKind,        \* SpecScrape: the scraper that is running
    scStep,        \* SpecScrape: the next step of the with-body
    scDriver,      \* SpecScrape: WebDriverContext.driver (NoDriver or a browser)
    scRunning,     \* SpecScrape: the browsers that are running
    scLaunched,    \* SpecScrape: the browsers launched so far
    scFailed,      \* SpecScrape: the step that raised in the current or last scrape
    scOutcome      \* SpecScrape: how the last scrape ended

scrapeVars == <<scPc, scKind, scStep, scDriver, scRunning, scLaunched, scFailed, scOutcome>>

VARIABLES
    lgLevel,       \* SpecLog: the configured log level
    lgDay,         \* SpecLog: the current day
    lgFiles,       \* SpecLog: the files of the log directory
    lgArchived,    \* SpecLog: the files of the 'archived' subdirectory
    lgHandler,     \* SpecLog: per sink, the day of the last write and of the next rollover
    lgRotated      \* SpecLog: the files rotated out by the last logging call

logVars == <<lgLevel, lgDay, lgFiles, lgArchived, lgHandler, lgRotated>>

VARIABLES
    wData,         \* SpecWeighted: per rate name, the series the pipeline yields
    wArgs,         \* SpecWeighted: the components of the last call
    wResult        \* SpecWeighted: what the last call returned

weightedVars == <<wData, wArgs, wResult>>

VARIABLES
    flDf,          \* SpecFilter: the frame, rows in their order
    flArgs,        \* SpecFilter: start_date and end_date of the last call
    flResult       \* SpecFilter: the frame the last call returned

filterVars == <<flDf, flArgs, flResult>>

VARIABLES
    dgView,        \* SpecRange: the view whose date-range tab was rendered last
    dgDf,          \* SpecRange: the series the tab works on
    dgSel,         \* SpecRange: what the date-range input returned
    dgRendered     \* SpecRange: the elements the tab rendered

rangeVars == <<dgView, dgDf, dgSel, dgRendered>>

VARIABLES
    uaLog,         \* SpecActivity: the rows of the activity log, in file order
    uaArgs,        \* SpecActivity: start_date and end_date of the last analysis
    uaResult       \* SpecActivity: the filtered rows, the user summary and the metrics

activityVars == <<uaLog, uaArgs, uaResult>>

VARIABLES
    gRates,        \* SpecGlossary: financial_rates, the terms in insertion order
    gArgs,         \* SpecGlossary: the arguments of the last call
    gSorted        \* SpecGlossary: what the last call returned

glossaryVars == <<gRates, gArgs, gSorted>>

VARIABLES
    tNow,          \* SpecNotif: the clock, in hours
    tTable,        \* SpecNotif: per key, the list object of DEFAULT_SESSION_STATE
    tRef,          \* SpecNotif: per session and key: "absent", "table" or "own"
    tOwn,          \* SpecNotif: per session and key, the session's own list object
    tCall,         \* SpecNotif: the last call
    tPrev          \* SpecNotif: per key, the caller's list before the last call

notifVars == <<tNow, tTable, tRef, tOwn, tCall, tPrev>>

VARIABLES
    prTable,       \* SpecParse: the rows of the selected table, or NoTable
    prResult       \* SpecParse: what parse_rates returned or raised

parseVars == <<prTable, prResult>>

VARIABLES
    liHeap,        \* SpecList: the heap of list objects
    liSt,          \* SpecList: the session state of the session
    liCall,        \* SpecList: the arguments of the last add_to_list call
    liPrev,        \* SpecList: the list under the key before the last call
    liOps          \* SpecList: the calls made

listVars == <<liHeap, liSt, liCall, liPrev, liOps>>

VARIABLES
    ulFile,        \* SpecUsage: usage.log: whether it exists, and its lines
    ulHandlers,    \* SpecUsage: the sinks of the process's root logger
    ulAppLines,    \* SpecUsage: the records the "app" sink received
    ulPc,          \* SpecUsage: per session thread, its position
    ulWritten      \* SpecUsage: the logging.info calls made

usageVars == <<ulFile, ulHandlers, ulAppLines, ulPc, ulWritten>>

VARIABLES
    pdfRows,       \* SpecPdf: the number of rows of the data frame
    pdfDoc         \* SpecPdf: what generate_pdf_from_df drew

pdfVars == <<pdfRows, pdfDoc>>

VARIABLES
    fvTerms,       \* SpecFav: st.session_state.favorite_terms
    fvCalls,       \* SpecFav: the last two operations, the latest last
    fvBefore,      \* SpecFav: favorite_terms before each of the last two operations
    fvOps          \* SpecFav: the operations made

favVars == <<fvTerms, fvCalls, fvBefore, fvOps>>

vars ==
    <<mainVars, permVars, fetchVars, cacheVars,
      sessVars, routeVars, scrapeVars, logVars,
      weightedVars, filterVars, rangeVars, activityVars,
      glossaryVars, notifVars, parseVars, listVars,
      usageVars, pdfVars, favVars>>

\* what the actions of one specification leave alone: the variables of the others
notMainVars ==
    <<permVars, fetchVars, cacheVars, sessVars,
      routeVars, scrapeVars, logVars, weightedVars,
      filterVars, rangeVars, activityVars, glossaryVars,
      notifVars, parseVars, listVars, usageVars,
      pdfVars, favVars>>
notPermVars ==
    <<mainVars, fetchVars, cacheVars, sessVars,
      routeVars, scrapeVars, logVars, weightedVars,
      filterVars, rangeVars, activityVars, glossaryVars,
      notifVars, parseVars, listVars, usageVars,
      pdfVars, favVars>>
notFetchVars ==
    <<mainVars, permVars, cacheVars, sessVars,
      routeVars, scrapeVars, logVars, weightedVars,
      filterVars, rangeVars, activityVars, glossaryVars,
      notifVars, parseVars, listVars, usageVars,
      pdfVars, favVars>>
notCacheVars ==
    <<mainVars, permVars, fetchVars, sessVars,
      routeVars, scrapeVars, logVars, weightedVars,
      filterVars, rangeVars, activityVars, glossaryVars,
      notifVars, parseVars, listVars, usageVars,
      pdfVars, favVars>>
notSessVars ==
    <<mainVars, permVars, fetchVars, cacheVars,
      routeVars, scrapeVars, logVars, weightedVars,
      filterVars, rangeVars, activityVars, glossaryVars,
      notifVars, parseVars, listVars, usageVars,
      pdfVars, favVars>>
notRouteVars ==
    <<mainVars, permVars, fetchVars, cacheVars,
      sessVars, scrapeVars, logVars, weightedVars,
      filterVars, rangeVars, activityVars, glossaryVars,
      notifVars, parseVars, listVars, usageVars,
      pdfVars, favVars>>
notScrapeVars ==
    <<mainVars, permVars, fetchVars, cacheVars,
      sessVars, routeVars, logVars, weightedVars,
      filterVars, rangeVars, activityVars, glossaryVars,
      notifVars, parseVars, listVars, usageVars,
      pdfVars, favVars>>
notLogVars ==
    <<mainVars, permVars, fetchVars, cacheVars,
      sessVars, routeVars, scrapeVars, weightedVars,
      filterVars, rangeVars, activityVars, glossaryVars,
      notifVars, parseVars, listVars, usageVars,
      pdfVars, favVars>>
notWeightedVars ==
    <<mainVars, permVars, fetchVars, cacheVars,
      sessVars, routeVars, scrapeVars, logVars,
      filterVars, rangeVars, activityVars, glossaryVars,
      notifVars, parseVars, listVars, usageVars,
      pdfVars, favVars>>
notFilterVars ==
    <<mainVars, permVars, fetchVars, cacheVars,
      sessVars, routeVars, scrapeVars, logVars,
      weightedVars, rangeVars, activityVars, glossaryVars,
      notifVars, parseVars, listVars, usageVars,
      pdfVars, favVars>>
notRangeVars ==
    <<mainVars, permVars, fetchVars, cacheVars,
      sessVars, routeVars, scrapeVars, logVars,
      weightedVars, filterVars, activityVars, glossaryVars,
      notifVars, parseVars, listVars, usageVars,
      pdfVars, favVars>>
notActivityVars ==
    <<mainVars, permVars, fetchVars, cacheVars,
      sessVars, routeVars, scrapeVars, logVars,
      weightedVars, filterVars, rangeVars, glossaryVars,
      notifVars, parseVars, listVars, usageVars,
      pdfVars, favVars>>
notGlossaryVars ==
    <<mainVars, permVars, fetchVars, cacheVars,
      sessVars, routeVars, scrapeVars, logVars,
      weightedVars, filterVars, rangeVars, activityVars,
      notifVars, parseVars, listVars, usageVars,
      pdfVars, favVars>>
notNotifVars ==
    <<mainVars, permVars, fetchVars, cacheVars,
      sessVars, routeVars, scrapeVars, logVars,
      weightedVars, filterVars, rangeVars, activityVars,
      glossaryVars, parseVars, listVars, usageVars,
      pdfVars, favVars>>
notParseVars ==
    <<mainVars, permVars, fetchVars, cacheVars,
      sessVars, routeVars, scrapeVars, logVars,
      weightedVars, filterVars, rangeVars, activityVars,
      glossaryVars, notifVars, listVars, usageVars,
      pdfVars, favVars>>
notListVars ==
    <<mainVars, permVars, fetchVars, cacheVars,
      sessVars, routeVars, scrapeVars, logVars,
      weightedVars, filterVars, rangeVars, activityVars,
      glossaryVars, notifVars, parseVars, usageVars,
      pdfVars, favVars>>
notUsageVars ==
    <<mainVars, permVars, fetchVars, cacheVars,
      sessVars, routeVars, scrapeVars, logVars,
      weightedVars, filterVars, rangeVars, activityVars,
      glossaryVars, notifVars, parseVars, listVars,
      pdfVars, favVars>>
notPdfVars ==
    <<mainVars, permVars, fetchVars, cacheVars,
      sessVars, routeVars, scrapeVars, logVars,
      weightedVars, filterVars, rangeVars, activityVars,
      glossaryVars, notifVars, parseVars, listVars,
      usageVars, favVars>>
notFavVars ==
    <<mainVars, permVars, fetchVars, cacheVars,
      sessVars, routeVars, scrapeVars, logVars,
      weightedVars, filterVars, rangeVars, activityVars,
      glossaryVars, notifVars, parseVars, listVars,
      usageVars, pdfVars>>

\* what the variable rendered records of a routing call
Routed(section, shown) ==
    [section |-> section, view |-> shown.view, banner |-> shown.banner]
NotRouted == Routed("none", Shown(NoView, "none"))

Event(kind, arg) == [kind |-> kind, arg |-> arg]
NoEvent == Event("none", "-")

\* the interactions the widgets of the last run allow
EventsFor(w, log) ==
    {NoEvent}
    \cup (IF "login_form" \in w
          THEN {Event("submit_ok", u) : u \in DOMAIN AppConfig}
               \cup {Event("submit_bad", "-")}
          ELSE {})
    \cup (IF "guest_login" \in w /\ Len(log) + 2 <= MaxLog
          THEN {Event("guest_login", "-")} ELSE {})
    \cup (IF "guest_logout" \in w THEN {Event("guest_logout", "-")} ELSE {})
    \cup (IF "logout" \in w THEN {Event("logout", "-")} ELSE {})
    \cup (IF "save_rate" \in w THEN {Event("save_rate", n) : n \in RateNames} ELSE {})

MainInit ==
    /\ pc = "idle"
    /\ ss = EmptySessionState
    /\ event = NoEvent
    /\ widgets = {}
    /\ rendered = NotRouted
    /\ offered = << >>
    /\ rootHandlers = {}
    /\ usageLog = << >>
    /\ appLog = << >>
    /\ emitted = << >>
    /\ configExists \in BOOLEAN
    /\ fredKey \in {"", "key"}
    /\ built = FALSE
    /\ runCalled = FALSE
    /\ outcome = "none"
    /\ loginLines = 0
    /\ visitIncs = 0
    /\ reruns = 0

\* logging.info(msg) for every message of msgs: each sink of the root logger
\* receives the record in its own format
LogInfo(msgs) ==
    /\ emitted' = emitted \o msgs
    /\ usageLog' = IF "usage" \in rootHandlers
                   THEN usageLog \o FormatAll(msgs, "usage") ELSE usageLog
    /\ appLog' = IF "app" \in rootHandlers
                 THEN appLog \o FormatAll(msgs, "app") ELSE appLog

Bump(n) == IF n < MaxReruns THEN n + 1 ELSE n

\* app.py:122-128 initialize_session
initialize_session(s) ==
    LET s1 == initialize_auth_session(s)
    IN  IF ~Has(s1, "app_initialized") THEN Put(s1, "app_initialized", FALSE) ELSE s1

\* app.py:153-155: a run of the script starts, on an interaction with a widget
\* of the last run or on st.rerun(), and seeds the session
InitializeSession ==
    /\ pc \in {"idle", "rerun"}
    /\ event' \in (IF pc = "rerun" THEN {NoEvent} ELSE EventsFor(widgets, emitted))
    /\ ss' = initialize_session(ss)
    /\ widgets' = {}
    /\ rendered' = NotRouted
    /\ offered' = << >>
    /\ built' = FALSE
    /\ runCalled' = FALSE
    /\ pc' = "main"
    /\ UNCHANGED <<rootHandlers, usageLog, appLog, emitted, configExists, fredKey,
                   outcome, loginLines, visitIncs, reruns>>
    /\ UNCHANGED notMainVars

\* app.py:43-89
check_config_file == configExists
\* app.py:92-119
check_environment == fredKey # ""
\* app.py:131-150
show_setup_help == check_config_file /\ check_environment

\* app.py:157-160: the setup check of a session not yet initialized; st.stop()
\* ends the run
ShowSetupHelp ==
    /\ pc = "main"
    /\ IF ~ss.app_initialized /\ ~show_setup_help
       THEN pc' = "idle" /\ outcome' = "stopped"
       ELSE pc' = "construct" /\ outcome' = outcome
    /\ UNCHANGED <<ss, event, widgets, rendered, offered, rootHandlers, usageLog,
                   appLog, emitted, configExists, fredKey, built, runCalled,
                   loginLines, visitIncs, reruns>>
    /\ UNCHANGED notMainVars

\* app_controller.py:47-85, the keys the model follows
initialize_all_session_state(s) ==
    Seed(initialize_auth_session(s), "custom_rates", {})

\* app.py:162-164 and AuthenticatedBankingRatesController.__init__:
\* setup_logging, then AuthenticationManager (_setup_logging, _load_config),
\* then the session defaults; app_initialized is set
ConstructController ==
    /\ pc = "construct"
    /\ LET afterSetup == setup_logger(rootHandlers)
       IN  /\ usageLog' = ensure_log_file(usageLog)
           /\ rootHandlers' = basicConfig(afterSetup, "usage")
    /\ IF ~configExists
       THEN /\ pc' = "idle" /\ outcome' = "stopped"
            /\ UNCHANGED <<ss, built>>
       ELSE /\ ss' = Put(initialize_all_session_state(initialize_auth_session(ss)),
                         "app_initialized", TRUE)
            /\ built' = TRUE
            /\ pc' = "run" /\ outcome' = outcome
    /\ UNCHANGED <<event, widgets, rendered, offered, appLog, emitted, configExists,
                   fredKey, runCalled, loginLines, visitIncs, reruns>>
    /\ UNCHANGED notMainVars

\* app_controller.py:110-114, 132-133 and auth_manager.py:68-91: run() reaches
\* show_login_form; the authenticator handles a submitted form, and the guest
\* button, rendered while nobody is authenticated, logs the guest in and
\* restarts the run with st.rerun()
ShowLoginForm ==
    /\ pc = "run"
    /\ runCalled' = TRUE
    /\ LET s1 == authenticator_login(ss, event)
           form == IF authenticator_shows_form(ss) THEN {"login_form"} ELSE {}
           guestButton == IF ~is_authenticated(s1) THEN {"guest_login"} ELSE {}
       IN  /\ widgets' = widgets \cup form \cup guestButton
           /\ IF guestButton # {} /\ event.kind = "guest_login"
              THEN LET r == login_as_guest(s1)
                   IN  /\ ss' = r.s
                       /\ LogInfo(r.out)
                       /\ loginLines' = 1 /\ visitIncs' = 1 /\ reruns' = 0
                       /\ pc' = "rerun" /\ outcome' = "rerun"
              ELSE /\ ss' = s1
                   /\ IF ~is_authenticated(ss) /\ is_authenticated(s1)
                      THEN loginLines' = 0 /\ visitIncs' = 0 /\ reruns' = 0
                      ELSE UNCHANGED <<loginLines, visitIncs, reruns>>
                   /\ pc' = "branch"
                   /\ UNCHANGED <<usageLog, appLog, emitted, outcome>>
    /\ UNCHANGED <<event, rendered, offered, rootHandlers, configExists, fredKey, built>>
    /\ UNCHANGED notMainVars

\* app_controller.py:137-138, 200-203: process_login, then the sidebar with the
\* authenticator's logout button (a click clears the markers and the run goes
\* on) and the last_login capture
HandleAuthenticatedUser ==
    /\ pc = "branch"
    /\ get_authentication_status(ss) = "True"
    /\ LET r == process_login(ss)
           clicked == is_authenticated(r.s) /\ ~is_guest(r.s) /\ event.kind = "logout"
           s2 == IF clicked THEN authenticator_logout(r.s) ELSE r.s
       IN  /\ LogInfo(r.out)
           /\ loginLines' = loginLines + Len(r.out)
           /\ visitIncs' = visitIncs + Len(r.out)
           /\ widgets' = widgets \cup (IF is_authenticated(r.s)
                                       THEN (IF is_guest(r.s) THEN {"guest_logout"}
                                             ELSE {"logout"})
                                       ELSE {})
           /\ ss' = IF is_authenticated(r.s) THEN capture_last_login(s2) ELSE s2
    /\ pc' = "auth_content"
    /\ UNCHANGED <<event, rendered, offered, rootHandlers, configExists, fredKey,
                   built, runCalled, outcome, reruns>>
    /\ UNCHANGED notMainVars

\* app_controller.py:204-208, 219-228, 271-301: the section list, the routing of
\* the selected section (any name may reach the router), and the save button of
\* the Custom Rate Builder view when the view has data
RenderAuthenticatedContent ==
    /\ pc = "auth_content"
    /\ \E section \in SectionNames, hasData \in BOOLEAN :
          LET shown == route_to_section(AppConfig, ss, section)
              builder == shown.view = CustomRateBuilder /\ hasData
          IN  /\ offered' = get_available_sections(AppConfig, get_current_user(ss))
              /\ rendered' = Routed(section, shown)
              /\ widgets' = widgets \cup (IF builder THEN {"save_rate"} ELSE {})
              /\ ss' = IF builder /\ event.kind = "save_rate"
                       THEN Put(ss, "custom_rates",
                                Get(ss, "custom_rates", {}) \cup {event.arg})
                       ELSE ss
    /\ pc' = "idle"
    /\ outcome' = "rendered"
    /\ reruns' = IF is_authenticated(ss) THEN Bump(reruns) ELSE reruns
    /\ UNCHANGED <<event, rootHandlers, usageLog, appLog, emitted, configExists,
                   fredKey, built, runCalled, loginLines, visitIncs>>
    /\ UNCHANGED notMainVars

\* app_controller.py:140-141, 181-184: process_login, then the sidebar with the
\* guest logout button: a click runs _logout_guest, which ends in st.rerun()
HandleGuestUser ==
    /\ pc = "branch"
    /\ get_authentication_status(ss) = "guest"
    /\ LET r == process_login(ss)
           button == IF is_authenticated(r.s)
                     THEN (IF is_guest(r.s) THEN {"guest_logout"} ELSE {"logout"})
                     ELSE {}
       IN  /\ widgets' = widgets \cup button
           /\ IF "guest_logout" \in button /\ event.kind = "guest_logout"
              THEN LET q == logout_guest(r.s)
                   IN  /\ ss' = q.s
                       /\ LogInfo(r.out \o q.out)
                       /\ pc' = "rerun" /\ outcome' = "rerun"
              ELSE /\ ss' = IF is_authenticated(r.s)
                            THEN capture_last_login(r.s) ELSE r.s
                   /\ LogInfo(r.out)
                   /\ pc' = "guest_content" /\ outcome' = outcome
           /\ loginLines' = loginLines + Len(r.out)
           /\ visitIncs' = visitIncs + Len(r.out)
    /\ UNCHANGED <<event, rendered, offered, rootHandlers, configExists, fredKey,
                   built, runCalled, reruns>>
    /\ UNCHANGED notMainVars

\* app_controller.py:198, 210-217, 253-269: the guest section list and routing
RenderGuestContent ==
    /\ pc = "guest_content"
    /\ \E section \in SectionNames :
          /\ offered' = get_guest_sections
          /\ rendered' = Routed(section, route_to_guest_section(section))
    /\ pc' = "idle"
    /\ outcome' = "rendered"
    /\ reruns' = IF is_authenticated(ss) THEN Bump(reruns) ELSE reruns
    /\ UNCHANGED <<ss, event, widgets, rootHandlers, usageLog, appLog, emitted,
                   configExists, fredKey, built, runCalled, loginLines, visitIncs>>
    /\ UNCHANGED notMainVars

\* app_controller.py:143-145: incorrect credentials
HandleFailedAuth ==
    /\ pc = "branch"
    /\ get_authentication_status(ss) = "False"
    /\ ss' = cleanup_session_on_failed_auth(ss)
    /\ pc' = "idle"
    /\ outcome' = "rendered"
    /\ UNCHANGED <<event, widgets, rendered, offered, rootHandlers, usageLog, appLog,
                   emitted, configExists, fredKey, built, runCalled, loginLines,
                   visitIncs, reruns>>
    /\ UNCHANGED notMainVars

\* app_controller.py:147-152: nobody is logged in
RenderWelcomeScreen ==
    /\ pc = "branch"
    /\ get_authentication_status(ss) = None
    /\ ss' = cleanup_session_on_failed_auth(ss)
    /\ pc' = "idle"
    /\ outcome' = "rendered"
    /\ UNCHANGED <<event, widgets, rendered, offered, rootHandlers, usageLog, appLog,
                   emitted, configExists, fredKey, built, runCalled, loginLines,
                   visitIncs, reruns>>
    /\ UNCHANGED notMainVars

(***************************************************************************)
(* SpecPerm: the Permission Manager and the section lists applied to       *)
(* every configuration, username and permission of a bounded universe.     *)
(***************************************************************************)
ConfigNames == {"alice", "guest"}
RoleEntries == {"admin", "power_user", "user", "guest", "auditor", NoRole}
Configs == UNION {[d -> RoleEntries] : d \in SUBSET ConfigNames}
Usernames == {"alice", "guest", None}

PermIdle ==
    /\ pStage = "input"
    /\ pCfg = << >>
    /\ pUser = None
    /\ pPerm = "view_data"
    /\ pAllowed = FALSE
    /\ pSections = << >>

PermInit ==
    /\ pStage = "input"
    /\ pCfg \in Configs
    /\ pUser \in Usernames
    /\ pPerm \in Permissions
    /\ pAllowed = FALSE
    /\ pSections = << >>

CallHasPermission ==
    /\ pStage = "input"
    /\ pAllowed' = has_permission(pCfg, pUser, pPerm)
    /\ pStage' = "has_permission"
    /\ UNCHANGED <<pCfg, pUser, pPerm, pSections, notPermVars>>

CallGetAvailableSections ==
    /\ pStage = "input"
    /\ pSections' = get_available_sections(pCfg, pUser)
    /\ pStage' = "get_available_sections"
    /\ UNCHANGED <<pCfg, pUser, pPerm, pAllowed, notPermVars>>

CallGetGuestSections ==
    /\ pStage = "input"
    /\ pSections' = get_guest_sections
    /\ pStage' = "get_guest_sections"
    /\ UNCHANGED <<pCfg, pUser, pPerm, pAllowed, notPermVars>>

(***************************************************************************)
(* SpecFetch: FredSeries.run_pipeline (fetch_rates.py:40-85).              *)
(***************************************************************************)
\* constants/fred.py: the series_id of the 11 registry entries
FRED_SERIES_REGISTRY ==
    {"FEDFUNDS", "MPRIME", "SOFR", "SOFR30DAYAVG", "GS1", "GS2", "GS3", "GS5",
     "GS7", "GS10", "GS1M"}

\* what can come back from session.get(...), raise_for_status() and json()
Responses ==
    {"connection error", "timeout", "http error status", "body is not JSON",
     "JSON that is not an object", "JSON null", "object without observations",
     "observations without date", "observations"}

\* the failures after which _fetch_data logs and returns None
FetchFailures ==
    {"connection error", "timeout", "http error status", "body is not JSON"}

\* mutant of is_env_valid: only the base URL is checked
is_env_valid_source_only(api_key, source) == source \notin {None, ""}

\* _is_env_valid: "not x" holds of None and of the empty string
is_env_valid(api_key, source) ==
    IF api_key \in {None, ""} THEN FALSE
    ELSE IF source \in {None, ""} THEN FALSE
    ELSE TRUE

\* _fetch_data: the payload, None after a RequestException or a ValueError
fetch_data(response) ==
    IF response \in FetchFailures THEN None
    ELSE IF response = "JSON null" THEN None
    ELSE response

\* _process_data: payload.get('observations', []) raises AttributeError on
\* anything that is not a dict; rows without 'date' raise KeyError
process_data(payload) ==
    IF payload = None THEN "raised AttributeError"
    ELSE IF payload = "JSON that is not an object" THEN "raised AttributeError"
    ELSE IF payload = "object without observations" THEN "empty"
    ELSE IF payload = "observations without date" THEN "raised KeyError"
    ELSE "frame"

FetchIdle ==
    /\ fpc = "start"
    /\ fKey = None
    /\ fSource = None
    /\ fSeries = "FEDFUNDS"
    /\ fResponse = "observations"
    /\ fPayload = "unset"
    /\ fResult = "pending"
    /\ fHttpCalls = 0
    /\ fLogged = {}

FetchInit ==
    /\ fpc = "start"
    /\ fKey \in {None, "", "key"}
    /\ fSource \in {None, "", "https://api.stlouisfed.org/fred"}
    /\ fSeries \in FRED_SERIES_REGISTRY
    /\ fResponse \in Responses
    /\ fPayload = "unset"
    /\ fResult = "pending"
    /\ fHttpCalls = 0
    /\ fLogged = {}

\* run_pipeline, lines 78-79: the environment guard
CheckEnv ==
    /\ fpc = "start"
    /\ IF ~is_env_valid(fKey, fSource)
       THEN fResult' = "empty" /\ fpc' = "done"
       ELSE fResult' = fResult /\ fpc' = "fetch"
    /\ UNCHANGED <<fKey, fSource, fSeries, fResponse, fPayload, fHttpCalls, fLogged,
                   notFetchVars>>

\* run_pipeline, lines 81-82: _generate_params and _fetch_data
FetchData ==
    /\ fpc = "fetch"
    /\ fHttpCalls' = fHttpCalls + 1
    /\ fPayload' = fetch_data(fResponse)
    /\ fLogged' = IF fResponse \in FetchFailures THEN fLogged \cup {"error"} ELSE fLogged
    /\ fpc' = "process"
    /\ UNCHANGED <<fKey, fSource, fSeries, fResponse, fResult, notFetchVars>>

\* run_pipeline, lines 83-85: _process_data, the success record, the return
ProcessData ==
    /\ fpc = "process"
    /\ LET r == process_data(fPayload)
       IN  /\ fResult' = r
           /\ fLogged' = IF r = "empty" THEN fLogged \cup {"warning", "info"}
                         ELSE IF r = "frame" THEN fLogged \cup {"info"}
                         ELSE fLogged
    /\ fpc' = "done"
    /\ UNCHANGED <<fKey, fSource, fSeries, fResponse, fPayload, fHttpCalls,
                   notFetchVars>>

(***************************************************************************)
(* SpecCache and SpecRates: the memoized loaders of DataProcessor, the      *)
(* combined summary and the session's custom rates                         *)
(* (data_processor.py:26-98, 157-163), called one after the other by the   *)
(* sessions of one process.                                                *)
(* A rate value is a whole number of thousandths; a series is a sequence   *)
(* of points [date, value] in index order.                                 *)
(***************************************************************************)
Sessions == {"s1", "s2"}

\* constants/fred.py: the registry names, in the order of the dict
FRED_RATE_NAMES ==
    <<"Fed Funds Rate", "Prime Rate", "SOFR", "30-Day Average SOFR",
      "1 Yr Treasury Constant Maturity", "2 Yr Treasury Constant Maturity",
      "3 Yr Treasury Constant Maturity", "5 Yr Treasury Constant Maturity",
      "7 Yr Treasury Constant Maturity", "10 Yr Treasury Constant Maturity",
      "1 Month Treasury Constant Maturity">>

\* the series_id arguments load_fred_series is called with
CachedSeriesIds == {"SOFR", "MPRIME"}

\* a call of a memoized loader: the function and its hashed argument (_self
\* is not part of the key)
LoaderCall(fn, arg) == [fn |-> fn, arg |-> arg]
SummaryCall == LoaderCall("load_fred_summary", "-")
Calls ==
    {SummaryCall, LoaderCall("load_fhlb_data", "-"), LoaderCall("load_farm_mac_data", "-")}
    \cup {LoaderCall("load_fred_series", id) : id \in CachedSeriesIds}

\* what a run of the pipeline behind a loader does: it yields data, yields
\* nothing (run_pipeline returns an empty frame), or raises
PipelineOutcomes == {"frame", "empty", "raised"}

NoStamp == -1
Loaded(result, time) == [result |-> result, time |-> time]

\* round(val, 2), on thousandths: to the nearest hundredth, an exact tie to
\* the even hundredth
round2(v) ==
    LET q == v \div 10
        r == v % 10
    IN  IF r < 5 THEN q * 10
        ELSE IF r > 5 THEN (q + 1) * 10
        ELSE IF q % 2 = 0 THEN q * 10 ELSE (q + 1) * 10

\* load_fred_summary, lines 29-49: one record per registry entry, from the
\* data the upstream holds at time t; -1 stands for 'N/A' and 'No Data'
fred_summary_records(pipe, t) ==
    [i \in 1..Len(FRED_RATE_NAMES) |->
        IF pipe = "frame"
        THEN [name |-> FRED_RATE_NAMES[i], date |-> t, value |-> round2(1000 * t + i),
              source |-> "fred"]
        ELSE [name |-> FRED_RATE_NAMES[i], date |-> -1, value |-> -1,
              source |-> "fred"]]

\* the body of a loader run at time t; "raised" stands for an exception
\* leaving the loader
loader_body(call, pipe, t) ==
    IF pipe = "raised" THEN {}
    ELSE IF call.fn = "load_fred_summary"
         THEN {Loaded(fred_summary_records(pipe, t), t)}
    ELSE IF call.fn = "load_farm_mac_data"
         THEN {Loaded(<<pipe, t>>, t)}
    ELSE {Loaded(<<pipe, t>>, NoStamp)}

\* mutant of cache_data: the store is never consulted
cache_data_never_hits(cache, call) == {}

\* @st.cache_data: the stored value of a call, {} on a miss
cache_data(cache, call) == cache[call]

\* a dict assignment d[name] = series: an existing key keeps its position
dict_set(items, name, series) ==
    IF \E i \in 1..Len(items) : items[i].name = name
    THEN [i \in 1..Len(items) |->
            IF items[i].name = name THEN [name |-> name, series |-> series]
            ELSE items[i]]
    ELSE Append(items, [name |-> name, series |-> series])

\* mutant of save_custom_rate: every save adds an entry
save_custom_rate_appends(rates, name, series) ==
    [present |-> TRUE,
     items |-> Append(rates.items, [name |-> name, series |-> series])]

\* CustomRateBuilder.save_custom_rate
save_custom_rate(rates, name, series) ==
    LET r == IF ~rates.present THEN [present |-> TRUE, items |-> << >>] ELSE rates
    IN  [present |-> TRUE, items |-> dict_set(r.items, name, series)]

\* series.index.max() and series.loc[latest]
LatestPoint(series) ==
    CHOOSE p \in {series[i] : i \in 1..Len(series)} :
        \A i \in 1..Len(series) : series[i].date <= p.date

RECURSIVE custom_records(_)
\* get_combined_rate_summary, lines 62-72: a record per non-empty series
custom_records(items) ==
    IF items = << >> THEN << >>
    ELSE LET h == Head(items)
             rec == IF h.series = << >> THEN << >>
                    ELSE << [name |-> h.name, date |-> LatestPoint(h.series).date,
                             value |-> round2(LatestPoint(h.series).value),
                             source |-> "User-defined custom rate"] >>
         IN  rec \o custom_records(Tail(items))

\* get_combined_rate_summary, given the loaded base summary
get_combined_rate_summary(base, rates) ==
    [records |-> base.result \o (IF rates.present THEN custom_records(rates.items)
                                 ELSE << >>),
     fetch_time |-> base.time]

\* the names and the series the Custom Rate Builder view saves; the view
\* returns before its save button when the series is empty
CustomNames == {"Prime Rate + 2.0", "60% Prime Rate + 40% SOFR"}
CustomSeries ==
    { << [date |-> 1, value |-> 7500] >>,
      << [date |-> 1, value |-> 7500], [date |-> 2, value |-> 9998] >> }

CacheIdle ==
    /\ cClock = 0
    /\ cCache = [c \in Calls |-> {}]
    /\ cRuns = [c \in Calls |-> 0]
    /\ cFirst = [c \in Calls |-> {}]
    /\ cRet = [session |-> "none", call |-> SummaryCall, status |-> "none", value |-> {}]
    /\ cRates = [s \in Sessions |-> [present |-> TRUE, items |-> << >>]]
    /\ cSummary = [session |-> "none", status |-> "none", records |-> << >>,
                   fetch_time |-> NoStamp, base |-> {}, at |-> 0]
    /\ cSaved = [s \in Sessions |-> [n \in CustomNames |-> << >>]]
    /\ cSaves = [s \in Sessions |-> [n \in CustomNames |-> 0]]

\* time passes between two calls: datetime.now() moves on
Tick(bound) ==
    /\ cClock < bound
    /\ cClock' = cClock + 1

\* the cache wrapper around a loader: a hit returns the stored value, a miss
\* runs the body and stores what it returned (nothing when it raised)
Memoized(s, call, pipe) ==
    LET hit == cache_data(cCache, call)
        got == IF hit # {} THEN hit ELSE loader_body(call, pipe, cClock)
    IN  /\ cRuns' = IF hit = {} THEN [cRuns EXCEPT ![call] = @ + 1] ELSE cRuns
        /\ cCache' = IF hit = {} THEN [cCache EXCEPT ![call] = got] ELSE cCache
        /\ cFirst' = IF cFirst[call] = {} /\ got # {}
                     THEN [cFirst EXCEPT ![call] = {[value |-> got, by |-> s]}]
                     ELSE cFirst

\* a session calls load_fred_summary, load_fred_series(series_id),
\* load_fhlb_data or load_farm_mac_data
CallLoader ==
    \E s \in Sessions, call \in Calls, pipe \in PipelineOutcomes :
        /\ Tick(MaxClock)
        /\ Memoized(s, call, pipe)
        /\ cRet' = [session |-> s, call |-> call,
                    status |-> IF cCache'[call] = {} THEN "raised" ELSE "ok",
                    value |-> cCache'[call]]
        /\ UNCHANGED <<cRates, cSummary, cSaved, cSaves, notCacheVars>>

\* the Custom Rate Builder view saves a series under a name
SaveCustomRate ==
    \E s \in Sessions, name \in CustomNames, series \in CustomSeries :
        /\ Tick(MaxRateCalls)
        /\ cRates' = [cRates EXCEPT ![s] = save_custom_rate(@, name, series)]
        /\ cSaved' = [cSaved EXCEPT ![s][name] = series]
        /\ cSaves' = [cSaves EXCEPT ![s][name] = @ + 1]
        /\ UNCHANGED <<cCache, cRuns, cFirst, cRet, cSummary, notCacheVars>>

\* a session's FRED view calls get_combined_rate_summary
GetCombinedRateSummary ==
    \E s \in Sessions, pipe \in PipelineOutcomes :
        /\ Tick(MaxRateCalls)
        /\ Memoized(s, SummaryCall, pipe)
        /\ LET base == cCache'[SummaryCall]
           IN  cSummary' =
                 IF base = {}
                 THEN [session |-> s, status |-> "raised", records |-> << >>,
                       fetch_time |-> NoStamp, base |-> {}, at |-> cClock']
                 ELSE LET r == get_combined_rate_summary(CHOOSE b \in base : TRUE,
                                                         cRates[s])
                      IN  [session |-> s, status |-> "ok", records |-> r.records,
                           fetch_time |-> r.fetch_time, base |-> base,
                           at |-> cClock']
        /\ UNCHANGED <<cRet, cRates, cSaved, cSaves, notCacheVars>>

(***************************************************************************)
(* SpecSess: the general session-state manager (auth/session_manager.py)   *)
(* used by two sessions of one process.  Lists and dicts are objects of a  *)
(* heap; a value is None, an integer or a reference to an object, so that  *)
(* two places holding the same object can be told from two places holding  *)
(* equal copies.                                                           *)
(***************************************************************************)
Val(kind, v) == [kind |-> kind, v |-> v]
Absent == Val("absent", 0)
PyNone == Val("none", 0)
PyInt(n) == Val("int", n)
Ref(id) == Val("ref", id)

Obj(kind, items) == [kind |-> kind, items |-> items]
FreeObj == Obj("free", << >>)

\* constants/defaults.py, the keys the model follows: the objects 1 and 2 are
\* the table's own list and dict
DEFAULT_SESSION_STATE ==
    [notifications |-> Ref(1), custom_rates |-> Ref(2), error_count |-> PyInt(0)]
TableKeys == <<"notifications", "custom_rates", "error_count">>
TableObjects == {1, 2}
\* a key the table does not hold
RecentKey == "recent_items"
SessKeys == {"notifications", "custom_rates", "error_count", RecentKey}

\* the state a handler works on: the heap and the session state of its session
World(heap, st) == [heap |-> heap, st |-> st]

\* the identities of the heap: the table's two objects, and at most two new
\* objects a call
HeapIds == 1..(2 + 2 * MaxSessOps)

\* the identity a new object gets: the first one not in use
NewId(w) ==
    CHOOSE id \in HeapIds :
        /\ w.heap[id].kind = "free"
        /\ \A j \in HeapIds : j < id => w.heap[j].kind # "free"

\* a new object
Alloc(w, obj) == [w EXCEPT !.heap[NewId(w)] = obj]

\* st.session_state[key] = copy.deepcopy(val) for a list or dict, the value
\* itself otherwise
deepcopy(w, key, val) ==
    IF val.kind = "ref"
    THEN [Alloc(w, w.heap[val.v]) EXCEPT !.st[key] = Ref(NewId(w))]
    ELSE [w EXCEPT !.st[key] = val]

RECURSIVE sm_initialize(_, _)
\* SessionStateManager.initialize_all_session_state, over the keys of the table
sm_initialize(w, keys) ==
    IF keys = << >> THEN w
    ELSE LET key == Head(keys)
             w1 == IF w.st[key] = Absent
                   THEN deepcopy(w, key, DEFAULT_SESSION_STATE[key])
                   ELSE w
         IN  sm_initialize(w1, Tail(keys))

\* a default argument: None, 0, or a list or dict literal, which is a new object
Materialize(w, default) ==
    IF default = "[]" THEN [w |-> Alloc(w, Obj("list", << >>)), val |-> Ref(NewId(w))]
    ELSE IF default = "{}" THEN [w |-> Alloc(w, Obj("dict", << >>)), val |-> Ref(NewId(w))]
    ELSE IF default = "0" THEN [w |-> w, val |-> PyInt(0)]
    ELSE [w |-> w, val |-> PyNone]

\* SessionStateManager.safe_get: the world after the call and the value returned
safe_get(w, key, default) ==
    IF w.st[key] # Absent THEN [w |-> w, val |-> w.st[key]]
    ELSE IF key \in DOMAIN DEFAULT_SESSION_STATE
         THEN [w |-> [w EXCEPT !.st[key] = DEFAULT_SESSION_STATE[key]],
               val |-> DEFAULT_SESSION_STATE[key]]
    ELSE LET m == Materialize(w, default)
         IN  [w |-> [m.w EXCEPT !.st[key] = m.val], val |-> m.val]

\* SessionStateManager.safe_set
safe_set(w, key, val) == [w EXCEPT !.st[key] = val]

\* reset_section.section_keys, the keys the model follows
section_keys ==
    [auth |-> << >>, data |-> <<"custom_rates">>, ui |-> << >>,
     errors |-> <<"error_count">>]

RECURSIVE reset_keys(_, _)
reset_keys(w, keys) ==
    IF keys = << >> THEN w
    ELSE LET key == Head(keys)
             w1 == IF key \in DOMAIN DEFAULT_SESSION_STATE
                   THEN safe_set(w, key, DEFAULT_SESSION_STATE[key]) ELSE w
         IN  reset_keys(w1, Tail(keys))

\* SessionStateManager.reset_section
reset_section(w, section) ==
    IF section \in DOMAIN section_keys THEN reset_keys(w, section_keys[section]) ELSE w

\* list.append(item) on the object itself
ListAppend(w, id, item) == [w EXCEPT !.heap[id].items = Append(@, item)]

\* the value is a list, or a dict
IsObj(w, val, kind) == val.kind = "ref" /\ w.heap[val.v].kind = kind

\* mutant of add_to_list: the slice keeps the oldest max_length elements
add_to_list_keeps_oldest(w, list_key, item, max_length) ==
    LET g == safe_get(w, list_key, "[]")
    IN  IF ~IsObj(g.w, g.val, "list") THEN g.w
        ELSE LET w1 == ListAppend(g.w, g.val.v, item)
                 items == w1.heap[g.val.v].items
             IN  IF max_length > 0 /\ Len(items) > max_length
                 THEN LET w2 == Alloc(w1, Obj("list", SubSeq(items, 1, max_length)))
                      IN  safe_set(w2, list_key, Ref(NewId(w1)))
                 ELSE safe_set(w1, list_key, g.val)

\* SessionStateManager.add_to_list; add_notification is the call with the
\* key 'notifications' and no max_length.  On a value that is not a list,
\* append raises and the call ends there
add_to_list(w, list_key, item, max_length) ==
    LET g == safe_get(w, list_key, "[]")
    IN  IF ~IsObj(g.w, g.val, "list") THEN g.w
        ELSE LET w1 == ListAppend(g.w, g.val.v, item)
                 items == w1.heap[g.val.v].items
             IN  IF max_length > 0 /\ Len(items) > max_length
                 THEN LET w2 == Alloc(w1, Obj("list",
                                   SubSeq(items, Len(items) - max_length + 1, Len(items))))
                      IN  safe_set(w2, list_key, Ref(NewId(w1)))
                 ELSE safe_set(w1, list_key, g.val)

\* current_dict[key] = value on the object itself
DictSet(w, id, key, value) ==
    LET items == w.heap[id].items
    IN  IF \E i \in 1..Len(items) : items[i][1] = key
        THEN [w EXCEPT !.heap[id].items =
                 [i \in 1..Len(items) |->
                     IF items[i][1] = key THEN <<key, value>> ELSE items[i]]]
        ELSE [w EXCEPT !.heap[id].items = Append(items, <<key, value>>)]

\* SessionStateManager.update_dict; the item assignment raises on a value
\* that is not a dict
update_dict(w, dict_key, key, value) ==
    LET g == safe_get(w, dict_key, "{}")
    IN  IF ~IsObj(g.w, g.val, "dict") THEN g.w
        ELSE safe_set(DictSet(g.w, g.val.v, key, value), dict_key, g.val)

\* SessionStateManager.increment_counter; the addition raises on a value that
\* is not a number
increment_counter(w, counter_name) ==
    LET g == safe_get(w, counter_name, "0")
    IN  IF g.val.kind # "int" THEN g.w
        ELSE safe_set(g.w, counter_name, PyInt(g.val.v + 1))

SessIdle ==
    /\ sHeap = [id \in HeapIds |->
                  IF id = 1 THEN Obj("list", << >>)
                  ELSE IF id = 2 THEN Obj("dict", << >>) ELSE FreeObj]
    /\ sSess = [s \in Sessions |-> [k \in SessKeys |-> Absent]]
    /\ sOps = 0
    /\ sActor = "none"

\* a handler of session s ran and left the world w
SessStep(s, w) ==
    /\ sOps < MaxSessOps
    /\ sOps' = sOps + 1
    /\ sHeap' = w.heap
    /\ sSess' = [sSess EXCEPT ![s] = w.st]
    /\ sActor' = s
    /\ UNCHANGED notSessVars

WorldOf(s) == World(sHeap, sSess[s])

InitializeAllSessionState ==
    \E s \in Sessions : SessStep(s, sm_initialize(WorldOf(s), TableKeys))

SafeGet ==
    \E s \in Sessions, key \in SessKeys :
        SessStep(s, safe_get(WorldOf(s), key, "None").w)

\* safe_set with a value the caller made: a number, or a new empty list as
\* clear_notifications passes
SafeSet ==
    \E s \in Sessions :
        \/ SessStep(s, safe_set(WorldOf(s), "error_count", PyInt(0)))
        \/ LET m == Materialize(WorldOf(s), "[]")
           IN  SessStep(s, safe_set(m.w, "notifications", m.val))

ResetSection ==
    \E s \in Sessions, section \in DOMAIN section_keys \cup {"other"} :
        SessStep(s, reset_section(WorldOf(s), section))

AddNotification ==
    \E s \in Sessions : SessStep(s, add_to_list(WorldOf(s), "notifications", s, 0))

AddToList ==
    \E s \in Sessions, max_length \in {0, 1} :
        SessStep(s, add_to_list(WorldOf(s), RecentKey, s, max_length))

UpdateDict ==
    \E s \in Sessions :
        SessStep(s, update_dict(WorldOf(s), "custom_rates", "rate", s))

IncrementCounter ==
    \E s \in Sessions : SessStep(s, increment_counter(WorldOf(s), "error_count"))

(***************************************************************************)
(* SpecRoute: the content of a run of a logged-in session, with section    *)
(* handlers that can fail (app_controller.py:110-123, 210-228, 253-301).   *)
(* A handler returns, raises an exception (class Exception), or ends the   *)
(* run with st.rerun(), whose signal is not of class Exception.            *)
(***************************************************************************)
Banner(kind, section) == [kind |-> kind, section |-> section]
NoBanner == Banner("none", "-")

\* what the handler of a section can do: the glossary wrapper catches its own
\* exceptions and has buttons that rerun; the basic admin dashboard has a
\* button that runs reset_session and reruns
HandlerResults(section) ==
    IF section = Glossary THEN {"returned", "rerun"}
    ELSE IF section = AdminDashboard THEN {"returned", "raised", "reset"}
    ELSE {"returned", "raised"}

\* auth_manager.py SessionStateManager.reset_session: every key is deleted
reset_session(s) == EmptySessionState

\* the result of a routing call: the handler invoked, the banner, the records
\* logged, how the call was left, the session state after it
RouteResult(invoked, banner, logged, exit, s) ==
    [invoked |-> invoked, banner |-> banner, logged |-> logged, exit |-> exit, s |-> s]

\* mutant of try_handler: no except clause around handler()
try_handler_uncaught(section, result, s) ==
    IF result = "raised" THEN RouteResult(section, NoBanner, << >>, "raised", s)
    ELSE IF result = "reset"
         THEN RouteResult(section, NoBanner, << >>, "rerun", reset_session(s))
    ELSE IF result = "rerun" THEN RouteResult(section, NoBanner, << >>, "rerun", s)
    ELSE RouteResult(section, NoBanner, << >>, "returned", s)

\* try: handler() except Exception: print_exc, logger.error, st.error
try_handler(section, result, s) ==
    IF result = "raised"
    THEN RouteResult(section, Banner("section error", section),
                     << <<"ERROR", "Error in section", section>> >>, "returned", s)
    ELSE IF result = "reset"
         THEN RouteResult(section, NoBanner, << >>, "rerun", reset_session(s))
    ELSE IF result = "rerun" THEN RouteResult(section, NoBanner, << >>, "rerun", s)
    ELSE RouteResult(section, NoBanner, << >>, "returned", s)

\* _route_to_section with the handler's result
route_to_section_try(cfg, s, section, result) ==
    LET username == get_current_user(s)
    IN  IF section \notin section_handlers
        THEN RouteResult("none", Banner("unknown section", section), << >>, "returned", s)
        ELSE IF section = CustomRateBuilder
                /\ ~has_permission(cfg, username, "create_custom_rates")
             THEN RouteResult("none", Banner("warning", section), << >>, "returned", s)
        ELSE IF section = AdminDashboard
                /\ ~has_permission(cfg, username, "manage_users")
             THEN RouteResult("none", Banner("warning", section), << >>, "returned", s)
        ELSE try_handler(section, result, s)

\* _route_to_guest_section with the handler's result
route_to_guest_section_try(s, section, result) ==
    IF section \in guest_handlers THEN try_handler(section, result, s)
    ELSE RouteResult("none", Banner("unknown section", section), << >>, "returned", s)

\* the authentication part of the session state
AuthState(s) == [k \in {"present"} \cup auth_keys |->
                    IF k = "present" THEN s.present \cap auth_keys ELSE s[k]]

Routing(section, result, r, before) ==
    [section |-> section, result |-> result, invoked |-> r.invoked,
     banner |-> r.banner, exit |-> r.exit, footer |-> r.exit = "returned",
     authBefore |-> AuthState(before)]

\* a session that has logged in, with its credentials or as a guest
LoggedIn ==
    {authenticator_login(initialize_auth_session(EmptySessionState),
                         Event("submit_ok", u)) : u \in DOMAIN AppConfig}
    \cup {login_as_guest(initialize_auth_session(EmptySessionState)).s}

RouteIdle ==
    /\ rpc = "select"
    /\ rSs = login_as_guest(initialize_auth_session(EmptySessionState)).s
    /\ rRoute = Routing("none", "none", RouteResult("none", NoBanner, << >>, "none",
                                                  EmptySessionState), EmptySessionState)
    /\ rLog = << >>

RouteInit ==
    /\ rpc = "select"
    /\ rSs \in LoggedIn
    /\ rRoute = Routing("none", "none", RouteResult("none", NoBanner, << >>, "none",
                                                  EmptySessionState), EmptySessionState)
    /\ rLog = << >>

\* where a routing call leaves the run: an exception that reaches run() is
\* logged there and the content ends; st.rerun() ends the run
AfterRouting(section, result, r) ==
    /\ rRoute' = Routing(section, result, r, rSs)
    /\ rLog' = rLog \o r.logged
               \o (IF r.exit = "raised" THEN << <<"ERROR", "Application error", "-">> >>
                   ELSE << >>)
    /\ rSs' = r.s
    /\ rpc' = "done"
    /\ UNCHANGED notRouteVars

\* _render_authenticated_content: the selected section is routed, then the
\* footer is rendered
RouteAuthenticatedContent ==
    /\ rpc = "select"
    /\ is_regular_user(rSs)
    /\ \E section \in SectionNames :
          \E result \in HandlerResults(section) :
              AfterRouting(section, result,
                           route_to_section_try(AppConfig, rSs, section, result))

\* _render_guest_content
RouteGuestContent ==
    /\ rpc = "select"
    /\ get_authentication_status(rSs) = "guest"
    /\ \E section \in SectionNames :
          \E result \in HandlerResults(section) :
              AfterRouting(section, result,
                           route_to_guest_section_try(rSs, section, result))

\* the next interaction starts the next run of a session that is still logged in
NextRun ==
    /\ rpc = "done"
    /\ is_authenticated(rSs)
    /\ Len(rLog) < MaxRouteLog
    /\ rpc' = "select"
    /\ UNCHANGED <<rSs, rRoute, rLog, notRouteVars>>

(***************************************************************************)
(* SpecScrape: FHLBScraper.scrape_rates and FarmerMacScraper.run_pipeline  *)
(* under WebDriverContext (web_driver.py:6-59, fhlb_scraper.py:45-61,      *)
(* farmer_mac.py:76-83), one step of the with-statement at a time.         *)
(***************************************************************************)
Scrapers == {"fhlb", "farmer_mac"}
NoDriver == 0
NoStep == "-"

\* the statements inside the with-block, in order
BodySteps(kind) ==
    IF kind = "fhlb"
    THEN <<"get", "page_source", "wait_tab", "click_tab", "page_source", "parse_rates">>
    ELSE <<"get", "page_source">>

\* the statements after the with-block
AfterSteps(kind) == IF kind = "fhlb" THEN << >> ELSE <<"extract_data">>

\* mutant of context_exit: the browser is quit only when the body succeeded
context_exit_on_success(driver, running, raised) ==
    IF driver # NoDriver /\ ~raised THEN running \ {driver} ELSE running

\* WebDriverContext.__exit__: if self.driver: self.driver.quit()
context_exit(driver, running, raised) ==
    IF driver # NoDriver THEN running \ {driver} ELSE running

ScrapeIdle ==
    /\ scPc = "idle"
    /\ scKind = "fhlb"
    /\ scStep = 1
    /\ scDriver = NoDriver
    /\ scRunning = {}
    /\ scLaunched = 0
    /\ scFailed = NoStep
    /\ scOutcome = "none"

\* with WebDriverContext(headless=True): __init__ sets self.driver = None
StartScrape ==
    /\ scPc = "idle"
    /\ scLaunched < MaxLaunches
    /\ \E kind \in Scrapers : scKind' = kind
    /\ scPc' = "enter"
    /\ scDriver' = NoDriver
    /\ scStep' = 1
    /\ scFailed' = NoStep
    /\ UNCHANGED <<scRunning, scLaunched, scOutcome, notScrapeVars>>

\* __enter__: webdriver.Chrome(...) launches the browser and the body starts,
\* or raises before self.driver is assigned and the with-statement is left
\* without __exit__
ContextEnter ==
    /\ scPc = "enter"
    /\ \/ /\ scLaunched' = scLaunched + 1
          /\ scDriver' = scLaunched + 1
          /\ scRunning' = scRunning \cup {scLaunched + 1}
          /\ scPc' = "body"
          /\ UNCHANGED <<scFailed, scOutcome>>
       \/ /\ scPc' = "idle"
          /\ scFailed' = "launch"
          /\ scOutcome' = "raised"
          /\ UNCHANGED <<scLaunched, scDriver, scRunning>>
    /\ UNCHANGED <<scKind, scStep, notScrapeVars>>

\* one statement of the with-block: it succeeds and the next one follows, or
\* it raises and the block is left
BodyStep ==
    /\ scPc = "body"
    /\ \/ /\ scStep' = scStep + 1
          /\ scPc' = IF scStep = Len(BodySteps(scKind)) THEN "exit" ELSE "body"
          /\ UNCHANGED scFailed
       \/ /\ scFailed' = BodySteps(scKind)[scStep]
          /\ scPc' = "exit"
          /\ UNCHANGED scStep
    /\ UNCHANGED <<scKind, scDriver, scRunning, scLaunched, scOutcome, notScrapeVars>>

\* __exit__, then the exception goes on, scrape_rates returns, or the
\* statements after the block follow
ContextExit ==
    /\ scPc = "exit"
    /\ scRunning' = context_exit(scDriver, scRunning, scFailed # NoStep)
    /\ IF scFailed # NoStep
       THEN scPc' = "idle" /\ scOutcome' = "raised"
       ELSE IF AfterSteps(scKind) = << >>
            THEN scPc' = "idle" /\ scOutcome' = "returned"
            ELSE scPc' = "after" /\ UNCHANGED scOutcome
    /\ UNCHANGED <<scKind, scStep, scDriver, scLaunched, scFailed, notScrapeVars>>

\* extract_data, parse_data, generate_dataframes of FarmerMacScraper
AfterStep ==
    /\ scPc = "after"
    /\ scPc' = "idle"
    /\ \/ scOutcome' = "returned" /\ UNCHANGED scFailed
       \/ scOutcome' = "raised" /\ scFailed' = AfterSteps(scKind)[1]
    /\ UNCHANGED <<scKind, scStep, scDriver, scRunning, scLaunched, notScrapeVars>>

(***************************************************************************)
(* SpecLog: the rotating file sinks of LoggerConfig over the days          *)
(* (logger_setup.py:54-72, 100-188).  A file name is a record: the sink,   *)
(* and the suffix after the base name: none (the live file), a date        *)
(* (what TimedRotatingFileHandler appends) or a number.                    *)
(***************************************************************************)
LogLevels == <<"DEBUG", "INFO", "ERROR">>
LevelNo(level) == CHOOSE i \in 1..Len(LogLevels) : LogLevels[i] = level

\* LoggerConfig.__init__: compression defaults to True and setup_logging
\* passes no other value
compression == TRUE

LiveFile(sink) == [sink |-> sink, kind |-> "live", n |-> 0]
DatedFile(sink, day) == [sink |-> sink, kind |-> "dated", n |-> day]
NumberedFile(sink, i) == [sink |-> sink, kind |-> "numbered", n |-> i]

\* the handlers _setup_logger attaches, their levels and backup counts
Sinks(level) == IF level = "DEBUG" THEN {"app", "errors", "debug"} ELSE {"app", "errors"}
AllSinks == {"app", "errors", "debug"}
SinkLevel(sink, level) ==
    IF sink = "errors" THEN "ERROR" ELSE IF sink = "debug" THEN "DEBUG" ELSE level
backupCount(sink) == IF sink = "debug" THEN 7 ELSE 30

Handler(mtime, rolloverAt) == [mtime |-> mtime, rolloverAt |-> rolloverAt]
NoHandler == Handler(-1, -1)

\* TimedRotatingFileHandler.getFilesToDelete: the dated files beyond the
\* newest backupCount
FilesToDelete(sink, files) ==
    LET dated == {f \in files : f.sink = sink /\ f.kind = "dated"}
    IN  {f \in dated : Cardinality({g \in dated : g.n > f.n}) >= backupCount(sink)}

\* TimedRotatingFileHandler.doRollover (when='midnight'): the live file is
\* renamed to <base>.<date of the day that ended>, old dated files are
\* deleted, the live file is opened again
timed_doRollover(sink, files, rolloverAt) ==
    LET dfn == DatedFile(sink, rolloverAt - 1)
        renamed == IF LiveFile(sink) \in files
                   THEN (files \ {LiveFile(sink), dfn}) \cup {dfn}
                   ELSE files \ {dfn}
    IN  (renamed \ FilesToDelete(sink, renamed)) \cup {LiveFile(sink)}

\* the loop of CompressedTimedRotatingFileHandler.doRollover: the files named
\* <base>.<i>, i from backupCount down to 1, are gzipped into archived/ and
\* removed
compress_numbered(sink, dir) ==
    LET found == {f \in dir.files : /\ f.sink = sink
                                    /\ f.kind = "numbered"
                                    /\ f.n \in 1..backupCount(sink)}
    IN  IF backupCount(sink) > 0
        THEN [files |-> dir.files \ found, archived |-> dir.archived \cup found]
        ELSE dir

\* doRollover of the handler _setup_logger chose
doRollover(sink, dir, rolloverAt) ==
    LET rolled == [files |-> timed_doRollover(sink, dir.files, rolloverAt),
                   archived |-> dir.archived]
    IN  IF compression THEN compress_numbered(sink, rolled) ELSE rolled

\* handler.emit: shouldRollover, doRollover, write
ShouldRollover(sink, handlers, day) == day >= handlers[sink].rolloverAt

Accepts(sink, configured, level) ==
    /\ sink \in Sinks(configured)
    /\ LevelNo(level) >= LevelNo(configured)
    /\ LevelNo(level) >= LevelNo(SinkLevel(sink, configured))

RECURSIVE emit_all(_, _, _, _, _)
emit_all(sinks, dir, handlers, rolling, day) ==
    IF sinks = {} THEN dir
    ELSE LET sink == CHOOSE x \in sinks : TRUE
             next == IF sink \in rolling
                     THEN doRollover(sink, dir, handlers[sink].rolloverAt)
                     ELSE dir
         IN  emit_all(sinks \ {sink}, next, handlers, rolling, day)

\* _setup_logger: new handlers; a handler's first rollover is the midnight
\* after the last modification of its file, or after now for a new file
setup_handlers(configured, files, handlers, day) ==
    [sink \in AllSinks |->
        IF sink \notin Sinks(configured) THEN NoHandler
        ELSE IF LiveFile(sink) \in files
             THEN Handler(handlers[sink].mtime, handlers[sink].mtime + 1)
             ELSE Handler(day, day + 1)]

LogIdle ==
    /\ lgLevel = "INFO"
    /\ lgDay = 0
    /\ lgFiles = {LiveFile(sink) : sink \in Sinks("INFO")}
    /\ lgArchived = {}
    /\ lgHandler = setup_handlers("INFO", {}, [sink \in AllSinks |-> NoHandler], 0)
    /\ lgRotated = {}

\* LoggerConfig(...) on day 0 in an empty log directory
LogInit ==
    /\ lgLevel \in {"INFO", "DEBUG"}
    /\ lgDay = 0
    /\ lgFiles = {LiveFile(sink) : sink \in Sinks(lgLevel)}
    /\ lgArchived = {}
    /\ lgHandler = setup_handlers(lgLevel, {}, [sink \in AllSinks |-> NoHandler], 0)
    /\ lgRotated = {}

\* midnight passes
Midnight ==
    /\ lgDay < MaxDay
    /\ lgDay' = lgDay + 1
    /\ UNCHANGED <<lgLevel, lgFiles, lgArchived, lgHandler, lgRotated, notLogVars>>

\* logger.debug / info / error: every handler that accepts the record rolls
\* over if its time has come, then writes
LogRecord ==
    \E level \in {"DEBUG", "INFO", "ERROR"} :
        LET to == {sink \in AllSinks : Accepts(sink, lgLevel, level)}
            rolling == {sink \in to : ShouldRollover(sink, lgHandler, lgDay)}
            dir == emit_all(to, [files |-> lgFiles, archived |-> lgArchived],
                            lgHandler, rolling, lgDay)
        IN  /\ lgFiles' = dir.files
            /\ lgArchived' = dir.archived
            /\ lgHandler' = [sink \in AllSinks |->
                                IF sink \in to
                                THEN Handler(lgDay,
                                             IF sink \in rolling THEN lgDay + 1
                                             ELSE lgHandler[sink].rolloverAt)
                                ELSE lgHandler[sink]]
            /\ lgRotated' = {DatedFile(sink, lgHandler[sink].rolloverAt - 1) :
                                sink \in rolling}
            /\ UNCHANGED <<lgLevel, lgDay, notLogVars>>

\* the controller of the next script run builds LoggerConfig again
SetupLogger ==
    /\ lgHandler' = setup_handlers(lgLevel, lgFiles, lgHandler, lgDay)
    /\ lgRotated' = {}
    /\ UNCHANGED <<lgLevel, lgDay, lgFiles, lgArchived, notLogVars>>

(***************************************************************************)
(* SpecWeighted: CustomRateBuilder.create_weighted_custom_rate             *)
(* (data_processor.py:133-155).  A series is a function from its dates to  *)
(* its values; a weight is in tenths of a percent, so that weight / 100.0  *)
(* is that many thousandths; a cell of an aligned series is a number or    *)
(* NaN.                                                                    *)
(***************************************************************************)
WeightedNames == {"Prime Rate", "SOFR"}
Dates == 1..MaxDate
SeriesValues == {10, 30}
EmptySeries == [d \in {} |-> 0]
SeriesSpace == UNION {[idx -> SeriesValues] : idx \in SUBSET Dates}

\* the number_input of a weight: 60 %, 40 %, 12.5 %
Weights == {600, 400, 125}
Component(name, weight) == [name |-> name, weight |-> weight]
ComponentLists ==
    LET one == {Component(n, w) : n \in WeightedNames, w \in Weights}
    IN  {<<c>> : c \in one} \cup {<<c, e>> : c \in one, e \in one}

Num(v) == [nan |-> FALSE, v |-> v]
NaN == [nan |-> TRUE, v |-> 0]

SetMax(S) == CHOOSE x \in S : \A y \in S : y <= x

\* series.reindex(base_index)
reindex(series, index) ==
    [d \in index |-> IF d \in DOMAIN series THEN Num(series[d]) ELSE NaN]

\* .fillna(method='ffill'): a NaN cell takes the last cell before it that is
\* not NaN
ffill(cells) ==
    [d \in DOMAIN cells |->
        IF ~cells[d].nan THEN cells[d]
        ELSE LET before == {e \in DOMAIN cells : e < d /\ ~cells[e].nan}
             IN  IF before = {} THEN NaN ELSE cells[SetMax(before)]]

\* aligned = series.reindex(base_index).fillna(method='ffill')
aligned_to(series, index) == ffill(reindex(series, index))

\* custom_series += aligned * weight
add_scaled(total, aligned, weight) ==
    [d \in DOMAIN total |->
        IF total[d].nan \/ aligned[d].nan THEN NaN
        ELSE Num(total[d].v + aligned[d].v * weight)]

\* f"{w*100:.0f}": thousandths to a whole percent, halves to the even one
format_0f(w) ==
    LET q == w \div 10
        r == w % 10
    IN  IF r > 5 \/ (r = 5 /\ q % 2 = 1) THEN q + 1 ELSE q

LabelPart(shown, name) == [shown |-> shown, name |-> name]

\* the loop that fills series_data: (df['value'], weight / 100.0, rate_name)
\* for every component whose frame is not empty
RECURSIVE series_data(_, _)
series_data(data, components) ==
    IF components = << >> THEN << >>
    ELSE LET c == Head(components)
             rest == series_data(data, Tail(components))
         IN  IF data[c.name] # EmptySeries
             THEN <<[series |-> data[c.name], w |-> c.weight, name |-> c.name]>> \o rest
             ELSE rest

RECURSIVE accumulate(_, _, _)
accumulate(total, sd, index) ==
    IF sd = << >> THEN total
    ELSE accumulate(add_scaled(total, aligned_to(Head(sd).series, index), Head(sd).w),
                    Tail(sd), index)

WeightedResult(series, label) == [series |-> series, label |-> label]

create_weighted_custom_rate(data, components) ==
    LET sd == series_data(data, components)
    IN  IF sd = << >> THEN WeightedResult(EmptySeries, << >>)
        ELSE LET base_index == DOMAIN sd[1].series
                 label == [i \in 1..Len(sd) |-> LabelPart(format_0f(sd[i].w), sd[i].name)]
             IN  WeightedResult(accumulate([d \in base_index |-> Num(0)], sd, base_index),
                                label)

NoWeightedCall == <<Component("-", 0)>>

WeightedIdle ==
    /\ wData = [n \in WeightedNames |-> EmptySeries]
    /\ wArgs = NoWeightedCall
    /\ wResult = WeightedResult(EmptySeries, << >>)

\* what the pipeline yields for each name
WeightedInit ==
    /\ wData \in [WeightedNames -> SeriesSpace]
    /\ wArgs = NoWeightedCall
    /\ wResult = WeightedResult(EmptySeries, << >>)

CreateWeightedCustomRate ==
    /\ wArgs = NoWeightedCall
    /\ \E components \in ComponentLists :
          /\ wArgs' = components
          /\ wResult' = create_weighted_custom_rate(wData, components)
    /\ UNCHANGED <<wData, notWeightedVars>>

(***************************************************************************)
(* SpecFilter: DataFilterer.filter_by_date_range (data_processor.py:       *)
(* 174-179).  A timestamp counts half days: day d at midnight is 2 * d,    *)
(* at noon 2 * d + 1; a frame is the sequence of its rows.                 *)
(***************************************************************************)
HalfDays == 2
Timestamp(day, half) == HalfDays * day + half

\* Timestamp.date() and DatetimeIndex.date: the calendar day
date(ts) == ts \div HalfDays

Row(ts, n) == [ts |-> ts, value |-> n]

\* a daily series: one row per day, at midnight
DailyFrame(first, n) == [i \in 1..n |-> Row(Timestamp(first + i - 1, 0), i)]

FrameStamps == {Timestamp(d, h) : d \in 2..3, h \in {0, 1}}
ArgStamps == {Timestamp(d, h) : d \in 0..(DailyRows + 1), h \in {0, 1}}

\* the frames: short ones in any order of timestamps, and a daily series
Frames ==
    {<< >>} \cup {<<Row(t, 1)>> : t \in FrameStamps}
    \cup {<<Row(t, 1), Row(u, 2)>> : t \in FrameStamps, u \in FrameStamps}
    \cup {DailyFrame(1, DailyRows)}

RECURSIVE SelectRows(_, _, _)
SelectRows(df, lo, hi) ==
    IF df = << >> THEN << >>
    ELSE IF lo <= date(Head(df).ts) /\ date(Head(df).ts) <= hi
         THEN <<Head(df)>> \o SelectRows(Tail(df), lo, hi)
         ELSE SelectRows(Tail(df), lo, hi)

\* mutant of filter_by_date_range: the timestamps are compared, not the days
filter_by_date_range_stamps(df, start_date, end_date) ==
    LET RECURSIVE Pick(_)
        Pick(rows) ==
            IF rows = << >> THEN << >>
            ELSE IF start_date <= Head(rows).ts /\ Head(rows).ts <= end_date
                 THEN <<Head(rows)>> \o Pick(Tail(rows))
                 ELSE Pick(Tail(rows))
    IN  Pick(df)

\* df.loc[(df.index.date >= start_date.date()) & (df.index.date <= end_date.date())]
filter_by_date_range(df, start_date, end_date) ==
    SelectRows(df, date(start_date), date(end_date))

NoFilterCall == [start |-> -1, end |-> -1]

FilterIdle ==
    /\ flDf = << >>
    /\ flArgs = NoFilterCall
    /\ flResult = << >>

FilterInit ==
    /\ flDf \in Frames
    /\ flArgs = NoFilterCall
    /\ flResult = << >>

FilterByDateRange ==
    /\ flArgs = NoFilterCall
    /\ \E start_date \in ArgStamps, end_date \in ArgStamps :
          /\ flArgs' = [start |-> start_date, end |-> end_date]
          /\ flResult' = filter_by_date_range(flDf, start_date, end_date)
    /\ UNCHANGED <<flDf, notFilterVars>>

(***************************************************************************)
(* SpecRange: the date-range tabs of the FRED view (fred_ui.py:115-153)    *)
(* and of the Custom Rate Builder view (ui_components.py:124-178).         *)
(***************************************************************************)
Element(kind, text) == [kind |-> kind, text |-> text]

DaysOf(df) == {date(df[i].ts) : i \in 1..Len(df)}

\* st.date_input(value=(min, max), min_value=min, max_value=max): a tuple of
\* no, one or two days between the first and the last day of the series
DateRanges(df) ==
    LET days == {d \in 0..(DailyRows + 1) :
                    /\ \E e \in DaysOf(df) : e <= d
                    /\ \E e \in DaysOf(df) : d <= e}
    IN  {<< >>} \cup {<<d>> : d \in days} \cup {<<d, e>> : d \in days, e \in days}

\* mutant of render_date_range_lookup: no comparison of the two dates
render_date_range_lookup_unchecked(df, date_range) ==
    IF Len(date_range) = 2
    THEN LET range_df == filter_by_date_range(df, Timestamp(date_range[1], 0),
                                              Timestamp(date_range[2], 0))
         IN  IF range_df # << >>
             THEN <<Element("subheader", "Rates from"), Element("dataframe", "value"),
                    Element("download_pdf", "Download Rates Dataset As a PDF")>>
             ELSE <<Element("warning", "No data found for selected range.")>>
    ELSE <<Element("info", "Please select both start and end dates to view data.")>>

\* FredRatesUI._render_date_range_lookup
render_date_range_lookup(df, date_range) ==
    IF Len(date_range) = 2
    THEN IF date_range[1] > date_range[2]
         THEN <<Element("error", "Start date must be before end date.")>>
         ELSE LET range_df == filter_by_date_range(df, Timestamp(date_range[1], 0),
                                                   Timestamp(date_range[2], 0))
              IN  IF range_df # << >>
                  THEN <<Element("subheader", "Rates from"),
                         Element("dataframe", "value"),
                         Element("download_pdf", "Download Rates Dataset As a PDF")>>
                  ELSE <<Element("warning", "No data found for selected range.")>>
    ELSE <<Element("info", "Please select both start and end dates to view data.")>>

\* CustomRateBuilderUI._render_custom_date_range
render_custom_date_range(custom_series, date_range) ==
    IF Len(date_range) = 2
    THEN IF date_range[1] > date_range[2]
         THEN <<Element("error", "Start date must be before end date.")>>
         ELSE LET range_df == SelectRows(custom_series, date_range[1], date_range[2])
              IN  IF range_df # << >>
                  THEN <<Element("subheader", "Custom Rate from"),
                         Element("chart", "range"),
                         Element("download_png", "Download Chart as PNG"),
                         Element("subheader", "Custom Rate Table"),
                         Element("dataframe", "Custom Rate"),
                         Element("download_pdf", "Download Custom Rate Dataset As a PDF")>>
                  ELSE <<Element("warning", "No data for selected range.")>>
    ELSE <<Element("info", "Please select both start and end dates.")>>

\* the series a tab is given: never empty (fred_ui.py:81-82,
\* ui_components.py:50-52, 73-75)
RangeFrames == Frames \ {<< >>}

RangeIdle ==
    /\ dgView = "none"
    /\ dgDf = DailyFrame(1, DailyRows)
    /\ dgSel = << >>
    /\ dgRendered = << >>

RangeInit ==
    /\ dgView = "none"
    /\ dgDf \in RangeFrames
    /\ dgSel = << >>
    /\ dgRendered = << >>

RenderDateRangeLookup ==
    /\ \E date_range \in DateRanges(dgDf) :
          /\ dgSel' = date_range
          /\ dgRendered' = render_date_range_lookup(dgDf, date_range)
    /\ dgView' = "fred"
    /\ UNCHANGED <<dgDf, notRangeVars>>

RenderCustomDateRange ==
    /\ \E date_range \in DateRanges(dgDf) :
          /\ dgSel' = date_range
          /\ dgRendered' = render_custom_date_range(dgDf, date_range)
    /\ dgView' = "custom"
    /\ UNCHANGED <<dgDf, notRangeVars>>

(***************************************************************************)
(* SpecActivity: UserActivityAnalytics (user_activity_processor.py:9-88)   *)
(* as the admin dashboard calls it (auth_ui.py:62-77): the log is parsed,  *)
(* filtered to a window, summarised per user and reduced to metrics.       *)
(***************************************************************************)
ActivityUsers == {"ada", "uma"}
ActivityEvents == {"login", "logout"}
ActivityStamps == {Timestamp(1, 1), Timestamp(2, 0)}
WindowDays == 0..3

LogRow(ts, username, ev) == [timestamp |-> ts, username |-> username, event |-> ev]
LogRows == {LogRow(t, u, e) : t \in ActivityStamps, u \in ActivityUsers, e \in ActivityEvents}
ActivityLogs == UNION {[1..n -> LogRows] : n \in 0..MaxLogRows}

\* _process_logs: read_csv, to_datetime, and the date column
process_logs(raw_logs) ==
    [i \in 1..Len(raw_logs) |->
        [timestamp |-> raw_logs[i].timestamp, username |-> raw_logs[i].username,
         event |-> raw_logs[i].event, date |-> date(raw_logs[i].timestamp)]]

RECURSIVE MaskRows(_, _, _)
MaskRows(df, start_date, end_date) ==
    IF df = << >> THEN << >>
    ELSE LET r == Head(df)
             rest == MaskRows(Tail(df), start_date, end_date)
         IN  IF r.date >= start_date /\ r.date <= end_date /\ r.event = "login"
             THEN <<r>> \o rest ELSE rest

\* mutant of activity_filter_by_date_range: the event is not tested
activity_filter_all_events(df, start_date, end_date) ==
    LET RECURSIVE Pick(_)
        Pick(rows) ==
            IF rows = << >> THEN << >>
            ELSE IF Head(rows).date >= start_date /\ Head(rows).date <= end_date
                 THEN <<Head(rows)>> \o Pick(Tail(rows))
                 ELSE Pick(Tail(rows))
    IN  Pick(df)

\* UserActivityAnalytics.filter_by_date_range
activity_filter_by_date_range(df, start_date, end_date) ==
    MaskRows(df, start_date, end_date)

\* groupby('username').agg(count, min, max) of one user
GroupOf(filtered_df, username) ==
    LET rows == {i \in 1..Len(filtered_df) : filtered_df[i].username = username}
        days == {filtered_df[i].date : i \in rows}
    IN  [username |-> username,
         total_logins |-> Cardinality(rows),
         first_login |-> CHOOSE d \in days : \A e \in days : d <= e,
         last_login |-> CHOOSE d \in days : \A e \in days : e <= d]

\* get_user_summary: the groups sorted by 'Total Logins', descending; the
\* sort is not a stable one, so groups with equal counts come in any order
get_user_summary(filtered_df) ==
    LET users == {filtered_df[i].username : i \in 1..Len(filtered_df)}
        n == Cardinality(users)
    IN  {summary \in [1..n -> {GroupOf(filtered_df, u) : u \in users}] :
            /\ \A i, j \in 1..n : i # j => summary[i] # summary[j]
            /\ \A i, j \in 1..n :
                  i < j => summary[i].total_logins >= summary[j].total_logins}

Metrics(total_users, total_logins, most_active_user) ==
    [total_users |-> total_users, total_logins |-> total_logins,
     most_active_user |-> most_active_user]

\* get_summary_metrics
get_summary_metrics(filtered_df, user_summary) ==
    IF filtered_df = << >> \/ user_summary = << >>
    THEN Metrics(0, 0, "N/A")
    ELSE Metrics(Len(user_summary), Len(filtered_df), user_summary[1].username)

Analysis(filtered, summary, metrics) ==
    [filtered |-> filtered, summary |-> summary, metrics |-> metrics]

NoAnalysis == [start |-> -1, end |-> -1]

ActivityIdle ==
    /\ uaLog = << >>
    /\ uaArgs = NoAnalysis
    /\ uaResult = Analysis(<< >>, << >>, Metrics(0, 0, "N/A"))

ActivityInit ==
    /\ uaLog \in ActivityLogs
    /\ uaArgs = NoAnalysis
    /\ uaResult = Analysis(<< >>, << >>, Metrics(0, 0, "N/A"))

\* the analytics of one window
AnalyzeWindow ==
    /\ uaArgs = NoAnalysis
    /\ \E start_date \in WindowDays, end_date \in WindowDays :
          LET filtered_df == activity_filter_by_date_range(process_logs(uaLog),
                                                           start_date, end_date)
          IN  \E user_summary \in get_user_summary(filtered_df) :
                 /\ uaArgs' = [start |-> start_date, end |-> end_date]
                 /\ uaResult' = Analysis(filtered_df, user_summary,
                                         get_summary_metrics(filtered_df, user_summary))
    /\ UNCHANGED <<uaLog, notActivityVars>>

(***************************************************************************)
(* SpecGlossary: FinancialGlossary.filter_and_sort_rates (glossary.py:     *)
(* 209-238).  A dict is the sequence of its items in insertion order; a    *)
(* term's name is a number whose order is the alphabetical order of the    *)
(* names.                                                                  *)
(***************************************************************************)
impact_order ==
    <<"Monetary Policy", "Reference Rate", "Government Securities",
      "Commercial Banking", "Consumer Finance", "Mortgage Finance",
      "Derivative Rate", "Legacy Reference Rate", "Government Sponsored Enterprise",
      "Regional Index", "Data Source">>

\* the categories of the terms: listed ones and two that are not listed
TermCategories ==
    {"Monetary Policy", "Reference Rate", "Data Source", "Cryptocurrency", "Benchmark"}

\* the alphabetical order of the categories
CategoryAlphabet ==
    <<"Benchmark", "Commercial Banking", "Consumer Finance", "Cryptocurrency",
      "Data Source", "Derivative Rate", "Government Securities",
      "Government Sponsored Enterprise", "Legacy Reference Rate", "Monetary Policy",
      "Mortgage Finance", "Reference Rate", "Regional Index">>

IndexIn(seq, x) == CHOOSE i \in 1..Len(seq) : seq[i] = x
InSeq(seq, x) == \E i \in 1..Len(seq) : seq[i] = x

Term(name, category, words) == [name |-> name, category |-> category, words |-> words]

\* the search words: the one of term 1's name, one of a description, none
SearchTerms == {"", "sofr", "overnight"}
TermWords(name) == IF name = 1 THEN {"sofr", "overnight"} ELSE {"overnight"}

GlossaryDicts ==
    UNION {{d \in [1..n -> {Term(m, c, TermWords(m)) : m \in 1..MaxTerms, c \in TermCategories}] :
               \A i, j \in 1..n : i # j => d[i].name # d[j].name} : n \in 0..MaxTerms}

RECURSIVE FilterTerms(_, _, _)
FilterTerms(rates, selected_category, search_term) ==
    IF rates = << >> THEN << >>
    ELSE LET t == Head(rates)
             rest == FilterTerms(Tail(rates), selected_category, search_term)
         IN  IF /\ selected_category = "Todos" \/ t.category = selected_category
                /\ search_term = "" \/ search_term \in t.words
             THEN <<t>> \o rest ELSE rest

\* sorted(items, key=...): the items with their keys, sorted stably
Keyed(items, Key(_)) == [i \in 1..Len(items) |-> [key |-> Key(items[i]), item |-> items[i]]]

RECURSIVE InsertByKey(_, _)
InsertByKey(sorted, p) ==
    IF sorted = << >> THEN <<p>>
    ELSE IF p.key <= Head(sorted).key THEN <<p>> \o sorted
    ELSE <<Head(sorted)>> \o InsertByKey(Tail(sorted), p)

RECURSIVE SortKeyed(_)
SortKeyed(pairs) ==
    IF pairs = << >> THEN << >>
    ELSE InsertByKey(SortKeyed(Tail(pairs)), Head(pairs))

StableSort(items, Key(_)) ==
    LET sorted == SortKeyed(Keyed(items, Key))
    IN  [i \in 1..Len(sorted) |-> sorted[i].item]

\* mutant of impact_key: a category that is not listed sorts first
impact_key_unlisted_first(t) ==
    IF InSeq(impact_order, t.category) THEN IndexIn(impact_order, t.category) - 1 ELSE -1

\* impact_order.index(category) if category in impact_order else 999
impact_key(t) ==
    IF InSeq(impact_order, t.category) THEN IndexIn(impact_order, t.category) - 1 ELSE 999

filter_and_sort_rates(rates, selected_category, search_term, sort_by) ==
    LET filtered_rates == FilterTerms(rates, selected_category, search_term)
        ByName(t) == t.name
        ByCategory(t) == IndexIn(CategoryAlphabet, t.category)
    IN  IF sort_by = "Alfabético" THEN StableSort(filtered_rates, ByName)
        ELSE IF sort_by = "Por Categoría" THEN StableSort(filtered_rates, ByCategory)
        ELSE StableSort(filtered_rates, impact_key)

NoGlossaryCall == [selected_category |-> "-", search_term |-> "-", sort_by |-> "-"]

GlossaryIdle ==
    /\ gRates = << >>
    /\ gArgs = NoGlossaryCall
    /\ gSorted = << >>

GlossaryInit ==
    /\ gRates \in GlossaryDicts
    /\ gArgs = NoGlossaryCall
    /\ gSorted = << >>

FilterAndSortRates ==
    /\ gArgs = NoGlossaryCall
    /\ \E selected_category \in {"Todos"} \cup TermCategories,
          search_term \in SearchTerms,
          sort_by \in {"Alfabético", "Por Categoría", "Por Impacto"} :
          /\ gArgs' = [selected_category |-> selected_category,
                       search_term |-> search_term, sort_by |-> sort_by]
          /\ gSorted' = filter_and_sort_rates(gRates, selected_category,
                                              search_term, sort_by)
    /\ UNCHANGED <<gRates, notGlossaryVars>>

(***************************************************************************)
(* SpecNotif: add_notification, clear_notifications and cleanup_old_data   *)
(* of the session-state manager (session_manager.py:64-80, 118-139) with   *)
(* the clock, for two sessions.  A session's entry for a key is absent,    *)
(* the list object of the defaults table (what safe_get stores for an      *)
(* absent key), or a list object of its own.                               *)
(***************************************************************************)
TimedKeys == {"notifications", "error_history"}
max_age_hours_default == 24
MaxAges == {1, 2, max_age_hours_default}

\* a notification or error entry: a dict
Entry(timestamp, id) == [kind |-> "dict", timestamp |-> timestamp, id |-> id]

\* hasattr(entry, 'timestamp'): a dict has keys, not attributes
py_hasattr(entry, name) == entry.kind = "object"

\* the list a session's key refers to
ListOf(table, ref, own, s, key) ==
    IF ref[s][key] = "own" THEN own[s][key]
    ELSE IF ref[s][key] = "table" THEN table[key]
    ELSE << >>

\* safe_get(key, []): an absent key is set to the table's own list
notif_safe_get(ref, s, key) ==
    IF ref[s][key] = "absent" THEN [ref EXCEPT ![s][key] = "table"] ELSE ref

\* mutant of notification_id: every notification gets the id 0
notification_id_zero(notifications) == 0

\* 'id': len(notifications)
notification_id(notifications) == Len(notifications)

RECURSIVE fresh_entries(_, _, _)
fresh_entries(entries, current_time, max_age_hours) ==
    IF entries = << >> THEN << >>
    ELSE LET e == Head(entries)
             rest == fresh_entries(Tail(entries), current_time, max_age_hours)
         IN  IF py_hasattr(e, "timestamp") /\ current_time - e.timestamp < max_age_hours
             THEN <<e>> \o rest ELSE rest

NotifCall(op, s, arg) == [op |-> op, session |-> s, arg |-> arg]

NotifIdle ==
    /\ tNow = 0
    /\ tTable = [key \in TimedKeys |-> << >>]
    /\ tRef = [s \in Sessions |-> [key \in TimedKeys |-> "absent"]]
    /\ tOwn = [s \in Sessions |-> [key \in TimedKeys |-> << >>]]
    /\ tCall = NotifCall("none", "none", 0)
    /\ tPrev = [key \in TimedKeys |-> << >>]

NotifInit == NotifIdle

Called(op, s, arg) ==
    /\ Len(ListOf(tTable, tRef, tOwn, s, "notifications")) < MaxEntries
    /\ Len(ListOf(tTable, tRef, tOwn, s, "error_history")) < MaxEntries
    /\ tCall' = NotifCall(op, s, arg)
    /\ tPrev' = [key \in TimedKeys |-> ListOf(tTable, tRef, tOwn, s, key)]
    /\ UNCHANGED notNotifVars

\* an hour passes
HourPasses ==
    /\ tNow < MaxHours
    /\ tNow' = tNow + 1
    /\ UNCHANGED <<tTable, tRef, tOwn, tCall, tPrev, notNotifVars>>

\* the list object a key of the session refers to gets the entry appended
AppendEntry(s, key, e) ==
    LET ref == notif_safe_get(tRef, s, key)
    IN  /\ tRef' = ref
        /\ IF ref[s][key] = "table"
           THEN /\ tTable' = [tTable EXCEPT ![key] = Append(@, e)]
                /\ UNCHANGED tOwn
           ELSE /\ tOwn' = [tOwn EXCEPT ![s][key] = Append(@, e)]
                /\ UNCHANGED tTable

\* SessionStateManager.add_notification
AddTimedNotification ==
    \E s \in Sessions :
        /\ Called("add_notification", s, 0)
        /\ AppendEntry(s, "notifications",
               Entry(tNow, notification_id(ListOf(tTable, notif_safe_get(tRef, s, "notifications"),
                                                  tOwn, s, "notifications"))))
        /\ UNCHANGED tNow

\* SessionStateManager.add_to_list('error_history', {..., 'timestamp': now})
AddError ==
    \E s \in Sessions :
        /\ Called("add_error", s, 0)
        /\ AppendEntry(s, "error_history", Entry(tNow, 0))
        /\ UNCHANGED tNow

\* SessionStateManager.clear_notifications
ClearNotifications ==
    \E s \in Sessions :
        /\ Called("clear_notifications", s, 0)
        /\ tRef' = [tRef EXCEPT ![s]["notifications"] = "own"]
        /\ tOwn' = [tOwn EXCEPT ![s]["notifications"] = << >>]
        /\ UNCHANGED <<tNow, tTable>>

\* SessionStateManager.cleanup_old_data
CleanupOldData ==
    \E s \in Sessions, max_age_hours \in MaxAges :
        /\ Called("cleanup_old_data", s, max_age_hours)
        /\ tRef' = [tRef EXCEPT ![s] = [key \in TimedKeys |-> "own"]]
        /\ tOwn' = [tOwn EXCEPT ![s] =
                      [key \in TimedKeys |->
                          fresh_entries(ListOf(tTable, tRef, tOwn, s, key), tNow,
                                        max_age_hours)]]
        /\ UNCHANGED <<tNow, tTable>>

(***************************************************************************)
(* SpecParse: FHLBScraper.parse_rates (fhlb_scraper.py:30-43) applied to   *)
(* every table of a bounded universe.  A table is the sequence of its tr   *)
(* rows, a row the sequence of its td cells, a cell's text a sequence of   *)
(* characters.                                                             *)
(***************************************************************************)
NoTable == <<"no table">>
CellTexts == {<< >>, <<" ">>, <<"1">>, <<"%">>, <<"1", "%">>, <<" ", "1">>}
HeaderRow == << >>
DataRows ==
    UNION {[1..n -> CellTexts] : n \in 0..3}
        \cup {r \o << <<"%">> >> : r \in [1..3 -> {<<"1">>, <<"%">>}]}
ParseTables ==
    {NoTable, << >>, <<HeaderRow>>}
        \cup {<<HeaderRow, HeaderRow>> \o d :
                d \in UNION {[1..n -> DataRows] : n \in 0..MaxDataRows}}

\* get_text(strip=True): leading and trailing whitespace removed
RECURSIVE lstrip(_)
lstrip(text) ==
    IF text # << >> /\ Head(text) = " " THEN lstrip(Tail(text)) ELSE text

RECURSIVE rstrip(_)
rstrip(text) ==
    IF text # << >> /\ text[Len(text)] = " "
    THEN rstrip(SubSeq(text, 1, Len(text) - 1)) ELSE text

get_text(cell) == rstrip(lstrip(cell))

\* "%" in regular
ContainsPercent(text) == \E i \in 1..Len(text) : text[i] = "%"

DataFrame(data) == [kind |-> "DataFrame", rows |-> data]
IndexError == [kind |-> "IndexError", rows |-> << >>]

\* the loop over the rows: cols[2] of a row of two cells raises IndexError
RECURSIVE parse_rows(_, _)
parse_rows(rows, data) ==
    IF rows = << >> THEN DataFrame(data)
    ELSE LET cols == Head(rows)
         IN  IF Len(cols) >= 2
             THEN IF Len(cols) < 3 THEN IndexError
                  ELSE LET term == get_text(cols[1])
                           regular == get_text(cols[3])
                       IN  IF term # << >> /\ regular # << >> /\ ContainsPercent(regular)
                           THEN parse_rows(Tail(rows), Append(data, <<term, regular>>))
                           ELSE parse_rows(Tail(rows), data)
             ELSE parse_rows(Tail(rows), data)

\* table.find_all("tr")[2:]
AfterHeader(rows) == IF Len(rows) <= 2 THEN << >> ELSE SubSeq(rows, 3, Len(rows))

parse_rates(table) ==
    IF table # NoTable THEN parse_rows(AfterHeader(table), << >>) ELSE DataFrame(<< >>)

NotParsed == [kind |-> "none", rows |-> << >>]

ParseIdle ==
    /\ prTable = NoTable
    /\ prResult = NotParsed

ParseInit ==
    /\ prTable \in ParseTables
    /\ prResult = NotParsed

ParseRates ==
    /\ prResult = NotParsed
    /\ prResult' = parse_rates(prTable)
    /\ UNCHANGED prTable
    /\ UNCHANGED notParseVars

(***************************************************************************)
(* SpecList: sequences of SessionStateManager.add_to_list calls with and   *)
(* without a max_length (session_manager.py:90-99) in one session.  The    *)
(* items are numbered in the order of their insertion.                     *)
(***************************************************************************)
MaxLengths == 0..2
ListKeys == {RecentKey, "notifications"}

\* max_length: Optional[int] = None; None is falsy as 0 is
max_length_arg(given, n) == IF given THEN n ELSE 0

ListCall(key, item, given, n) ==
    [list_key |-> key, item |-> item, given |-> given, max_length |-> n]

\* the items of the list a key holds
ItemsAt(heap, st, key) ==
    IF st[key].kind = "ref" THEN heap[st[key].v].items ELSE << >>

ListIdle ==
    /\ liHeap = [id \in HeapIds |->
                   IF id = 1 THEN Obj("list", << >>)
                   ELSE IF id = 2 THEN Obj("dict", << >>) ELSE FreeObj]
    /\ liSt = [k \in SessKeys |-> Absent]
    /\ liCall = ListCall("none", 0, FALSE, 0)
    /\ liPrev = << >>
    /\ liOps = 0

ListInit == ListIdle

CallAddToList ==
    \E key \in ListKeys, given \in BOOLEAN, n \in MaxLengths :
        LET item == liOps + 1
            w == add_to_list(World(liHeap, liSt), key, item, max_length_arg(given, n))
        IN  /\ liOps < MaxListOps
            /\ (~given => n = 0)
            /\ liOps' = item
            /\ liHeap' = w.heap
            /\ liSt' = w.st
            /\ liCall' = ListCall(key, item, given, n)
            /\ liPrev' = ItemsAt(liHeap, liSt, key)
            /\ UNCHANGED notListVars

(***************************************************************************)
(* SpecUsage: the activity log (usage.log) under the interleaving of the   *)
(* session threads of one process.  Each script run constructs the         *)
(* controller (app_controller.py:26-41): setup_logging, then the           *)
(* AuthenticationManager, whose _setup_logging (auth_manager.py:29-39) is  *)
(* three steps on the file system: os.path.exists, open(..., "w"), and     *)
(* the write of the header when the file is closed.                        *)
(***************************************************************************)
LogFile(exists, lines) == [exists |-> exists, lines |-> lines]
MissingFile == LogFile(FALSE, << >>)

\* open(log_file, "w"): the file is created or truncated
open_w(file) == LogFile(TRUE, << >>)

\* f.write(header) through a handle opened with "w": the bytes go to the
\* start of the file
write_header(file) ==
    LogFile(TRUE, IF file.lines = << >> THEN <<Header>>
                  ELSE [file.lines EXCEPT ![1] = Header])

\* a FileHandler in append mode writes a row at the end of the file
append_row(file, row) == LogFile(TRUE, Append(file.lines, row))

UsageIdle ==
    /\ ulFile = MissingFile
    /\ ulHandlers = {}
    /\ ulAppLines = 0
    /\ ulPc = [s \in Sessions |-> "idle"]
    /\ ulWritten = 0

\* the log file of an earlier process may be there
UsageInit ==
    /\ ulFile \in {MissingFile, LogFile(TRUE, <<Header>>),
                   LogFile(TRUE, <<Header, UsageRow(<<"guest", "login", 1>>)>>)}
    /\ ulHandlers = {}
    /\ ulAppLines = 0
    /\ ulPc = [s \in Sessions |-> "idle"]
    /\ ulWritten = 0

At(s, from, to) ==
    /\ ulPc[s] = from
    /\ ulPc' = [ulPc EXCEPT ![s] = to]
    /\ UNCHANGED notUsageVars

\* AuthenticatedBankingRatesController._setup_logging
UsageSetupLogging ==
    \E s \in Sessions :
        /\ At(s, "idle", "construct")
        /\ ulHandlers' = setup_logger(ulHandlers)
        /\ UNCHANGED <<ulFile, ulAppLines, ulWritten>>

\* if not os.path.exists(self.log_file)
UsageCheckExists ==
    \E s \in Sessions :
        /\ At(s, "construct", IF ulFile.exists THEN "has_file" ELSE "saw_missing")
        /\ UNCHANGED <<ulFile, ulHandlers, ulAppLines, ulWritten>>

\* with open(self.log_file, "w") as f
UsageOpenW ==
    \E s \in Sessions :
        /\ At(s, "saw_missing", "opened")
        /\ ulFile' = open_w(ulFile)
        /\ UNCHANGED <<ulHandlers, ulAppLines, ulWritten>>

\* f.write("timestamp,username,event,visit_count\n") and the close
UsageWriteHeader ==
    \E s \in Sessions :
        /\ At(s, "opened", "has_file")
        /\ ulFile' = write_header(ulFile)
        /\ UNCHANGED <<ulHandlers, ulAppLines, ulWritten>>

\* logging.basicConfig(filename=self.log_file, ...)
UsageBasicConfig ==
    \E s \in Sessions :
        /\ At(s, "has_file", "ready")
        /\ ulHandlers' = basicConfig(ulHandlers, "usage")
        /\ UNCHANGED <<ulFile, ulAppLines, ulWritten>>

\* logging.info(f'{username},{event},{count}') of a login or logout
UsageLogInfo ==
    \E s \in Sessions, ev \in {"login", "logout"} :
        /\ At(s, "ready", "ready")
        /\ ulWritten < MaxUsageLines
        /\ ulWritten' = ulWritten + 1
        /\ ulFile' = IF "usage" \in ulHandlers
                     THEN append_row(ulFile, UsageRow(<<"guest", ev, ulWritten>>))
                     ELSE ulFile
        /\ ulAppLines' = IF "app" \in ulHandlers THEN ulAppLines + 1 ELSE ulAppLines
        /\ UNCHANGED ulHandlers

\* the script run ends; the next run of the session constructs the controller
\* again
UsageRunEnds ==
    \E s \in Sessions :
        /\ At(s, "ready", "idle")
        /\ UNCHANGED <<ulFile, ulHandlers, ulAppLines, ulWritten>>

(***************************************************************************)
(* SpecPdf: generate_pdf_from_df (utils/pdf_generator.py:8-75) applied to  *)
(* data frames of every length up to a bound.  The document is the         *)
(* sequence of the strings drawn, each with its page and its y position    *)
(* in points.                                                              *)
(***************************************************************************)
\* width, height = letter
letter_height == 792
line_height == 18
footer_y == 30

Drawn(page, y, what) == [page |-> page, y |-> y, what |-> what]
Canvas(page, y, draws) == [page |-> page, y |-> y, draws |-> draws]

\* the title and the column header of the first page
draw_header(c) ==
    LET y == letter_height - 80
    IN  Canvas(c.page, y - line_height,
               c.draws \o <<Drawn(c.page, letter_height - 50, "title"),
                            Drawn(c.page, y, "header")>>)

\* the loop over df.iterrows(): a row, then a new page with its header when
\* y has fallen below 100
RECURSIVE draw_rows(_, _)
draw_rows(c, n) ==
    IF n = 0 THEN c
    ELSE LET y == c.y - line_height
             rowDrawn == Append(c.draws, Drawn(c.page, c.y, "row"))
         IN  IF y < 100
             THEN draw_rows(Canvas(c.page + 1, letter_height - 50 - line_height,
                                   Append(rowDrawn,
                                          Drawn(c.page + 1, letter_height - 50, "header"))),
                            n - 1)
             ELSE draw_rows(Canvas(c.page, y, rowDrawn), n - 1)

\* the signature section
draw_signatures(c) ==
    LET y0 == c.y - 40
        y1 == y0 - 40
        y2 == y1 - 30
        y3 == y2 - 30
        y4 == y3 - 30
    IN  Canvas(c.page, y4,
               c.draws \o <<Drawn(c.page, y0, "Authorized Signatures:"),
                            Drawn(c.page, y1, "Name:"),
                            Drawn(c.page, y2, "Title:"),
                            Drawn(c.page, y3, "Signature:"),
                            Drawn(c.page, y4, "Date:")>>)

\* the footer with the timestamp
draw_footer(c) ==
    Canvas(c.page, c.y, Append(c.draws, Drawn(c.page, footer_y, "footer")))

generate_pdf_from_df(rows) ==
    draw_footer(draw_signatures(draw_rows(draw_header(Canvas(1, letter_height, << >>)),
                                          rows)))

NoDoc == Canvas(0, 0, << >>)

PdfIdle ==
    /\ pdfRows = 0
    /\ pdfDoc = NoDoc

PdfInit ==
    /\ pdfRows \in 0..MaxPdfRows
    /\ pdfDoc = NoDoc

GeneratePdf ==
    /\ pdfDoc = NoDoc
    /\ pdfDoc' = generate_pdf_from_df(pdfRows)
    /\ UNCHANGED pdfRows
    /\ UNCHANGED notPdfVars

(***************************************************************************)
(* SpecFav: the favorites list of the glossary view (views/glossary.py):   *)
(* the star button of a rate card toggles the card's term, the remove      *)
(* buttons of the sidebar and of the favorites expander remove the term    *)
(* of their row.  A rate name is a sequence of characters.                 *)
(***************************************************************************)
FavRateNames ==
    {<<"S">>, <<"S", " ", "(", "o", ")">>, <<"P", " ", "(", "w", ")">>, <<"E", "(", "u", ")">>}

\* rate_name.split('(')[0]
RECURSIVE BeforeParen(_)
BeforeParen(name) ==
    IF name = << >> \/ Head(name) = "(" THEN << >>
    ELSE <<Head(name)>> \o BeforeParen(Tail(name))

\* term_name = rate_name.split('(')[0].strip()
term_name(rate_name) == rstrip(lstrip(BeforeParen(rate_name)))

\* [t for t in favorite_terms if t != term]
RECURSIVE without_term(_, _)
without_term(favorite_terms, term) ==
    IF favorite_terms = << >> THEN << >>
    ELSE IF Head(favorite_terms) # term
         THEN <<Head(favorite_terms)>> \o without_term(Tail(favorite_terms), term)
         ELSE without_term(Tail(favorite_terms), term)

\* mutant of toggle_favorite: the term is appended whether present or not
toggle_favorite_appends(favorite_terms, term) == Append(favorite_terms, term)

\* GlossaryView.toggle_favorite
toggle_favorite(favorite_terms, term) ==
    IF InSeq(favorite_terms, term)
    THEN without_term(favorite_terms, term)
    ELSE favorite_terms \o <<term>>

FavCall(op, term) == [op |-> op, term |-> term]
NoFavCall == FavCall("none", << >>)

FavIdle ==
    /\ fvTerms = << >>
    /\ fvCalls = <<NoFavCall, NoFavCall>>
    /\ fvBefore = << << >>, << >> >>
    /\ fvOps = 0

FavInit == FavIdle

FavStep(op, term, after) ==
    /\ fvOps < MaxFavOps
    /\ fvOps' = fvOps + 1
    /\ fvTerms' = after
    /\ fvCalls' = <<fvCalls[2], FavCall(op, term)>>
    /\ fvBefore' = <<fvBefore[2], fvTerms>>
    /\ UNCHANGED notFavVars

\* render_rate_card: the star button of a card
ToggleFavorite ==
    \E rate_name \in FavRateNames :
        FavStep("toggle", term_name(rate_name),
                toggle_favorite(fvTerms, term_name(rate_name)))

\* render_favorites_sidebar and the favorites expander: the remove button of
\* row i
RemoveFavorite ==
    \E i \in 1..Len(fvTerms) :
        FavStep("remove", fvTerms[i], without_term(fvTerms, fvTerms[i]))

(***************************************************************************)
(* The specifications.                                                     *)
(***************************************************************************)
\* the variables of the specifications added after the first three, at rest
OthersIdle == CacheIdle /\ SessIdle /\ RouteIdle /\ ScrapeIdle /\ LogIdle /\ WeightedIdle /\ FilterIdle /\ RangeIdle /\ ActivityIdle /\ GlossaryIdle /\ NotifIdle /\ ParseIdle /\ ListIdle /\ UsageIdle /\ PdfIdle /\ FavIdle

Init == MainInit /\ PermIdle /\ FetchIdle /\ OthersIdle

Next ==
    \/ InitializeSession
    \/ ShowSetupHelp
    \/ ConstructController
    \/ ShowLoginForm
    \/ HandleAuthenticatedUser
    \/ RenderAuthenticatedContent
    \/ HandleGuestUser
    \/ RenderGuestContent
    \/ HandleFailedAuth
    \/ RenderWelcomeScreen

Spec == Init /\ [][Next]_vars

MainIdle ==
    /\ pc = "idle"
    /\ ss = EmptySessionState
    /\ event = NoEvent
    /\ widgets = {}
    /\ rendered = NotRouted
    /\ offered = << >>
    /\ rootHandlers = {}
    /\ usageLog = << >>
    /\ appLog = << >>
    /\ emitted = << >>
    /\ configExists = TRUE
    /\ fredKey = "key"
    /\ built = FALSE
    /\ runCalled = FALSE
    /\ outcome = "none"
    /\ loginLines = 0
    /\ visitIncs = 0
    /\ reruns = 0

InitPerm == MainIdle /\ PermInit /\ FetchIdle /\ OthersIdle

NextPerm ==
    \/ CallHasPermission
    \/ CallGetAvailableSections
    \/ CallGetGuestSections

SpecPerm == InitPerm /\ [][NextPerm]_vars

InitFetch == MainIdle /\ PermIdle /\ FetchInit /\ OthersIdle

NextFetch ==
    \/ CheckEnv
    \/ FetchData
    \/ ProcessData

SpecFetch == InitFetch /\ [][NextFetch]_vars

\* the first three specifications at rest
BaseIdle == MainIdle /\ PermIdle /\ FetchIdle

InitCache == BaseIdle /\ CacheIdle /\ SessIdle /\ RouteIdle /\ ScrapeIdle /\ LogIdle /\ WeightedIdle /\ FilterIdle /\ RangeIdle /\ ActivityIdle /\ GlossaryIdle /\ NotifIdle /\ ParseIdle /\ ListIdle /\ UsageIdle /\ PdfIdle /\ FavIdle

NextCache == CallLoader

SpecCache == InitCache /\ [][NextCache]_vars

NextRates ==
    \/ SaveCustomRate
    \/ GetCombinedRateSummary

SpecRates == InitCache /\ [][NextRates]_vars

InitSess == BaseIdle /\ CacheIdle /\ SessIdle /\ RouteIdle /\ ScrapeIdle /\ LogIdle /\ WeightedIdle /\ FilterIdle /\ RangeIdle /\ ActivityIdle /\ GlossaryIdle /\ NotifIdle /\ ParseIdle /\ ListIdle /\ UsageIdle /\ PdfIdle /\ FavIdle

NextSess ==
    \/ InitializeAllSessionState
    \/ SafeGet
    \/ SafeSet
    \/ ResetSection
    \/ AddNotification
    \/ AddToList
    \/ UpdateDict
    \/ IncrementCounter

SpecSess == InitSess /\ [][NextSess]_vars

InitRoute == BaseIdle /\ CacheIdle /\ SessIdle /\ RouteInit /\ ScrapeIdle /\ LogIdle /\ WeightedIdle /\ FilterIdle /\ RangeIdle /\ ActivityIdle /\ GlossaryIdle /\ NotifIdle /\ ParseIdle /\ ListIdle /\ UsageIdle /\ PdfIdle /\ FavIdle

NextRoute ==
    \/ RouteAuthenticatedContent
    \/ RouteGuestContent
    \/ NextRun

SpecRoute == InitRoute /\ [][NextRoute]_vars

InitScrape == BaseIdle /\ CacheIdle /\ SessIdle /\ RouteIdle /\ ScrapeIdle /\ LogIdle /\ WeightedIdle /\ FilterIdle /\ RangeIdle /\ ActivityIdle /\ GlossaryIdle /\ NotifIdle /\ ParseIdle /\ ListIdle /\ UsageIdle /\ PdfIdle /\ FavIdle

NextScrape ==
    \/ StartScrape
    \/ ContextEnter
    \/ BodyStep
    \/ ContextExit
    \/ AfterStep

SpecScrape == InitScrape /\ [][NextScrape]_vars

InitLog == BaseIdle /\ CacheIdle /\ SessIdle /\ RouteIdle /\ ScrapeIdle /\ LogInit /\ WeightedIdle /\ FilterIdle /\ RangeIdle /\ ActivityIdle /\ GlossaryIdle /\ NotifIdle /\ ParseIdle /\ ListIdle /\ UsageIdle /\ PdfIdle /\ FavIdle

NextLog ==
    \/ Midnight
    \/ LogRecord
    \/ SetupLogger

SpecLog == InitLog /\ [][NextLog]_vars

InitWeighted == BaseIdle /\ CacheIdle /\ SessIdle /\ RouteIdle /\ ScrapeIdle /\ LogIdle /\ WeightedInit /\ FilterIdle /\ RangeIdle /\ ActivityIdle /\ GlossaryIdle /\ NotifIdle /\ ParseIdle /\ ListIdle /\ UsageIdle /\ PdfIdle /\ FavIdle

NextWeighted ==
    \/ CreateWeightedCustomRate

SpecWeighted == InitWeighted /\ [][NextWeighted]_vars

InitFilter == BaseIdle /\ CacheIdle /\ SessIdle /\ RouteIdle /\ ScrapeIdle /\ LogIdle /\ WeightedIdle /\ FilterInit /\ RangeIdle /\ ActivityIdle /\ GlossaryIdle /\ NotifIdle /\ ParseIdle /\ ListIdle /\ UsageIdle /\ PdfIdle /\ FavIdle

NextFilter ==
    \/ FilterByDateRange

SpecFilter == InitFilter /\ [][NextFilter]_vars

InitRange == BaseIdle /\ CacheIdle /\ SessIdle /\ RouteIdle /\ ScrapeIdle /\ LogIdle /\ WeightedIdle /\ FilterIdle /\ RangeInit /\ ActivityIdle /\ GlossaryIdle /\ NotifIdle /\ ParseIdle /\ ListIdle /\ UsageIdle /\ PdfIdle /\ FavIdle

NextRange ==
    \/ RenderDateRangeLookup
    \/ RenderCustomDateRange

SpecRange == InitRange /\ [][NextRange]_vars

InitActivity == BaseIdle /\ CacheIdle /\ SessIdle /\ RouteIdle /\ ScrapeIdle /\ LogIdle /\ WeightedIdle /\ FilterIdle /\ RangeIdle /\ ActivityInit /\ GlossaryIdle /\ NotifIdle /\ ParseIdle /\ ListIdle /\ UsageIdle /\ PdfIdle /\ FavIdle

NextActivity ==
    \/ AnalyzeWindow

SpecActivity == InitActivity /\ [][NextActivity]_vars

InitGlossary == BaseIdle /\ CacheIdle /\ SessIdle /\ RouteIdle /\ ScrapeIdle /\ LogIdle /\ WeightedIdle /\ FilterIdle /\ RangeIdle /\ ActivityIdle /\ GlossaryInit /\ NotifIdle /\ ParseIdle /\ ListIdle /\ UsageIdle /\ PdfIdle /\ FavIdle

NextGlossary ==
    \/ FilterAndSortRates

SpecGlossary == InitGlossary /\ [][NextGlossary]_vars

InitNotif == BaseIdle /\ CacheIdle /\ SessIdle /\ RouteIdle /\ ScrapeIdle /\ LogIdle /\ WeightedIdle /\ FilterIdle /\ RangeIdle /\ ActivityIdle /\ GlossaryIdle /\ NotifInit /\ ParseIdle /\ ListIdle /\ UsageIdle /\ PdfIdle /\ FavIdle

NextNotif ==
    \/ HourPasses
    \/ AddTimedNotification
    \/ AddError
    \/ ClearNotifications
    \/ CleanupOldData

SpecNotif == InitNotif /\ [][NextNotif]_vars

InitParse == BaseIdle /\ CacheIdle /\ SessIdle /\ RouteIdle /\ ScrapeIdle /\ LogIdle /\ WeightedIdle /\ FilterIdle /\ RangeIdle /\ ActivityIdle /\ GlossaryIdle /\ NotifIdle /\ ParseInit /\ ListIdle /\ UsageIdle /\ PdfIdle /\ FavIdle

NextParse ==
    \/ ParseRates

SpecParse == InitParse /\ [][NextParse]_vars

InitList == BaseIdle /\ CacheIdle /\ SessIdle /\ RouteIdle /\ ScrapeIdle /\ LogIdle /\ WeightedIdle /\ FilterIdle /\ RangeIdle /\ ActivityIdle /\ GlossaryIdle /\ NotifIdle /\ ParseIdle /\ ListInit /\ UsageIdle /\ PdfIdle /\ FavIdle

NextList ==
    \/ CallAddToList

SpecList == InitList /\ [][NextList]_vars

InitUsage == BaseIdle /\ CacheIdle /\ SessIdle /\ RouteIdle /\ ScrapeIdle /\ LogIdle /\ WeightedIdle /\ FilterIdle /\ RangeIdle /\ ActivityIdle /\ GlossaryIdle /\ NotifIdle /\ ParseIdle /\ ListIdle /\ UsageInit /\ PdfIdle /\ FavIdle

NextUsage ==
    \/ UsageSetupLogging
    \/ UsageCheckExists
    \/ UsageOpenW
    \/ UsageWriteHeader
    \/ UsageBasicConfig
    \/ UsageLogInfo
    \/ UsageRunEnds

SpecUsage == InitUsage /\ [][NextUsage]_vars

InitPdf == BaseIdle /\ CacheIdle /\ SessIdle /\ RouteIdle /\ ScrapeIdle /\ LogIdle /\ WeightedIdle /\ FilterIdle /\ RangeIdle /\ ActivityIdle /\ GlossaryIdle /\ NotifIdle /\ ParseIdle /\ ListIdle /\ UsageIdle /\ PdfInit /\ FavIdle

NextPdf ==
    \/ GeneratePdf

SpecPdf == InitPdf /\ [][NextPdf]_vars

InitFav == BaseIdle /\ CacheIdle /\ SessIdle /\ RouteIdle /\ ScrapeIdle /\ LogIdle /\ WeightedIdle /\ FilterIdle /\ RangeIdle /\ ActivityIdle /\ GlossaryIdle /\ NotifIdle /\ ParseIdle /\ ListIdle /\ UsageIdle /\ PdfIdle /\ FavInit

NextFav ==
    \/ ToggleFavorite
    \/ RemoveFavorite

SpecFav == InitFav /\ [][NextFav]_vars

(***************************************************************************)
(* Properties.                                                             *)
(***************************************************************************)
Last(seq) == seq[Len(seq)]

\* C1: once the Authentication Manager has been constructed, usage.log holds
\* its header followed by exactly one "<timestamp>,<message>" row per login or
\* logout event emitted, in order.
C1_UsageLogHoldsOneRowPerEvent ==
    usageLog # << >> => usageLog = <<Header>> \o FormatAll(emitted, "usage")

\* C2: in the run in which the credential authenticator has just set
\* authentication_status to true, the process_login call of the authenticated
\* flow increments visit_count (to at least 1) and emits the line
\* "<username>,login,<count>".
C2_FirstProcessLoginCounts ==
    (pc = "auth_content" /\ event.kind = "submit_ok" /\ reruns = 0)
        => /\ visitIncs = 1
           /\ loginLines = 1
           /\ ss.visit_count >= 1
           /\ emitted # << >>
           /\ Last(emitted) = <<event.arg, "login", ss.visit_count>>

\* C3: while one login lasts, whatever the number of reruns, visit_count is
\* incremented at most once and at most one login line is emitted for it.
C3_LoginCountedAtMostOnce ==
    /\ loginLines <= 1
    /\ visitIncs <= 1

C3_Witness ==
    /\ pc = "idle"
    /\ get_authentication_status(ss) = "guest"
    /\ reruns >= 2
    /\ loginLines = 1
    /\ visitIncs = 1

\* C4: when a guest logout has just run after a guest login, the seven
\* authentication keys are absent from the session state and the activity log
\* usage.log ends with the rows "guest,login,1" and "guest,logout,0", in that
\* order.
C4_GuestLoginLogoutLogged ==
    (pc = "rerun" /\ emitted # << >> /\ Last(emitted) = <<"guest", "logout", 0>>)
        => /\ ss.present \cap auth_keys = {}
           /\ Len(emitted) >= 2
           /\ emitted[Len(emitted) - 1] = <<"guest", "login", 1>>
           /\ Len(usageLog) >= 3
           /\ usageLog[Len(usageLog) - 1] = UsageRow(<<"guest", "login", 1>>)
           /\ usageLog[Len(usageLog)] = UsageRow(<<"guest", "logout", 0>>)

\* the role -> permission table of the specification, written out
TableGrants(role, permission) ==
    \/ permission \in {"view_data", "download_data"}
    \/ permission = "create_custom_rates" /\ role \in {"admin", "power_user"}
    \/ permission \in {"view_logs", "manage_users"} /\ role = "admin"

\* C5: has_permission returns exactly the fixed table for the roles admin,
\* power_user, user and guest and the five permissions; a username that is
\* absent from the configuration, or whose entry has no role field, gets the
\* answers of role "user"; the guest identity gets those of role "guest".
C5_HasPermissionIsTheTable ==
    pStage = "has_permission" =>
        /\ (pUser \notin DOMAIN pCfg \/ pCfg[pUser] = NoRole)
              => pAllowed = TableGrants("user", pPerm)
        /\ (pUser # "guest" /\ pUser \in DOMAIN pCfg
                /\ pCfg[pUser] \in {"admin", "power_user", "user", "guest"})
              => pAllowed = TableGrants(pCfg[pUser], pPerm)
        /\ pUser = "guest" => pAllowed = TableGrants("guest", pPerm)

C5_Witness ==
    /\ pStage = "has_permission"
    /\ pUser = "alice"
    /\ "alice" \in DOMAIN pCfg
    /\ pCfg["alice"] = NoRole
    /\ pPerm = "create_custom_rates"
    /\ pAllowed = FALSE

\* the state part of C6: what the last routing call rendered, against the
\* permissions of the current user
C6_StateInv ==
    /\ rendered.view = CustomRateBuilder
          => has_permission(AppConfig, get_current_user(ss), "create_custom_rates")
    /\ rendered.view = AdminDashboard
          => /\ has_permission(AppConfig, get_current_user(ss), "manage_users")
             /\ ~is_guest(ss)
    /\ (rendered.section = CustomRateBuilder
          /\ ~has_permission(AppConfig, get_current_user(ss), "create_custom_rates"))
          => rendered.view = NoView /\ rendered.banner # "none"
    /\ (rendered.section = AdminDashboard
          /\ ~has_permission(AppConfig, get_current_user(ss), "manage_users"))
          => rendered.view = NoView /\ rendered.banner # "none"
    /\ (rendered.section \in {CustomRateBuilder, AdminDashboard}
          /\ rendered.view = NoView
          /\ get_authentication_status(ss) # "guest")
          => rendered.banner = "warning"
    /\ get_authentication_status(ss) = "guest"
          => rendered.view \notin {CustomRateBuilder, AdminDashboard}

C7_SectionLists ==
    /\ pStage = "get_available_sections" =>
          LET L == pSections
              builder == has_permission(pCfg, pUser, "create_custom_rates")
              admin == has_permission(pCfg, pUser, "manage_users")
              IsBase(x) == x \notin {CustomRateBuilder, AdminDashboard}
          IN  /\ SelectSeq(L, IsBase) = <<FRED, FHLB, FarmerMac, Glossary>>
              /\ Len(L) = 4 + (IF builder THEN 1 ELSE 0) + (IF admin THEN 1 ELSE 0)
              /\ builder <=> L[2] = CustomRateBuilder
              /\ admin <=> L[Len(L)] = AdminDashboard
    /\ pStage = "get_guest_sections" => pSections = <<GuestFRED, GuestFHLB, Glossary>>

C7_Witness ==
    /\ pStage = "get_available_sections"
    /\ get_user_role(pCfg, pUser) = "power_user"
    /\ pSections = <<FRED, CustomRateBuilder, FHLB, FarmerMac, Glossary>>

\* C8: with config.yaml present and FRED_API_KEY absent, a finished run has
\* constructed the Application Controller, set app_initialized and called run.
C8_MissingKeyOnlyWarns ==
    (configExists /\ fredKey = "" /\ pc = "idle" /\ outcome # "none")
        => built /\ runCalled /\ ss.app_initialized

\* C9: with the API key and the base URL set, a transport failure, an HTTP
\* error status or a body that is not JSON makes run_pipeline log an error and
\* return an empty result; it does not raise.
C9_FetchFailureYieldsEmpty ==
    (fpc = "done" /\ is_env_valid(fKey, fSource) /\ fResponse \in FetchFailures)
        => fResult = "empty" /\ "error" \in fLogged

\* C10: for every registry entry, run_pipeline with an empty or absent API key,
\* or an unset base URL, returns an empty result without raising and without
\* issuing an HTTP request.
C10_InvalidEnvNoRequest ==
    (fKey \in {None, ""} \/ fSource \in {None, ""})
        => /\ fHttpCalls = 0
           /\ fpc \in {"start", "done"}
           /\ fpc = "done" => fResult = "empty"

C10_Witness ==
    /\ fpc = "done"
    /\ fKey = ""
    /\ fSource = "https://api.stlouisfed.org/fred"
    /\ fSeries = "GS1M"
    /\ fResult = "empty"
    /\ fHttpCalls = 0

\* C11: for each memoized loader and argument, once a first call has returned
\* a result, every later call from any session returns that same result (for
\* the FRED summary the same table and the same capture timestamp) and the
\* pipeline behind the loader is not run again.
C11_MemoizedLoadersReturnFirstResult ==
    /\ [](\A c \in Calls :
            (cRet.status = "ok" /\ cRet.call = c)
                => \E f \in cFirst[c] : cRet.value = f.value)
    /\ [][\A c \in Calls : cFirst[c] # {} => cRuns'[c] = cRuns[c]]_vars

C11_Witness ==
    /\ cRet.status = "ok"
    /\ cRet.call = SummaryCall
    /\ cRet.session = "s2"
    /\ \E f \in cFirst[SummaryCall] : f.by = "s1" /\ cRet.value = f.value
    /\ \E v \in cRet.value : v.time < cClock
    /\ cRuns[SummaryCall] = 1

\* what C12 expects of the combined summary of session s: the base records,
\* then, in the order of the map, one record per name with the latest point
\* of the series last saved under it; the value as stored or as rounded
RECURSIVE ExpectedCustom(_, _, _)
ExpectedCustom(s, items, rounded) ==
    IF items = << >> THEN << >>
    ELSE LET n == Head(items).name
             p == LatestPoint(cSaved[s][n])
         IN  << [name |-> n, date |-> p.date,
                 value |-> IF rounded THEN round2(p.value) ELSE p.value,
                 source |-> "User-defined custom rate"] >>
             \o ExpectedCustom(s, Tail(items), rounded)

NamesOf(items) == {items[i].name : i \in 1..Len(items)}

C12_Shape(rounded) ==
    (cSummary.status = "ok" /\ cSummary.at = cClock) =>
        LET s == cSummary.session
            items == cRates[s].items
        IN  /\ \A n \in CustomNames : n \in NamesOf(items) <=> cSaved[s][n] # << >>
            /\ Len(items) = Cardinality(NamesOf(items))
            /\ \E b \in cSummary.base :
                  cSummary.records = b.result \o ExpectedCustom(s, items, rounded)

\* C12 as stated: after any sequence of save_custom_rate calls in a session,
\* get_combined_rate_summary returns the cached base rows followed by exactly
\* one row per name of the session's custom-rate map, each carrying the latest
\* date and the latest value of the series most recently saved under that
\* name; an existing name is replaced, never repeated, and the base rows are
\* not fetched again.
C12_CombinedSummaryRows ==
    /\ []C12_Shape(FALSE)
    /\ [][cFirst[SummaryCall] # {} => cRuns'[SummaryCall] = cRuns[SummaryCall]]_vars

\* C12, amended: the row carries the latest value rounded to two decimals.
C12_CombinedSummaryRowsRounded ==
    /\ []C12_Shape(TRUE)
    /\ [][cFirst[SummaryCall] # {} => cRuns'[SummaryCall] = cRuns[SummaryCall]]_vars

C12_Witness ==
    /\ cSummary.status = "ok"
    /\ cSummary.session = "s1"
    /\ cSummary.at = cClock
    /\ cSummary.fetch_time < cClock - 1
    /\ cRuns[SummaryCall] = 1
    /\ Len(cRates["s1"].items) = 2
    /\ cSaves["s1"][cRates["s1"].items[1].name] = 2
    /\ cRates["s2"].items = << >>
    /\ Len(cSummary.records) = Len(FRED_RATE_NAMES) + 2
    /\ cSummary.records[Len(FRED_RATE_NAMES) + 1].value = 10000

\* what a place holds, with the contents of the object it refers to
Deref(val) == IF val.kind = "ref" THEN <<"object", sHeap[val.v]>> ELSE <<"value", val>>
\* everything stored in session s
StoredIn(s) == [k \in SessKeys |-> Deref(sSess[s][k])]
\* the static default table
TableContents == [k \in DOMAIN DEFAULT_SESSION_STATE |-> Deref(DEFAULT_SESSION_STATE[k])]

\* C13: whatever general session-manager operation a session runs, the static
\* default table does not change and no value stored in another session
\* changes; no session holds one of the table's own objects.
C13_SessionsIsolated ==
    /\ [][/\ TableContents' = TableContents
          /\ \A s \in Sessions : sActor' # s => StoredIn(s)' = StoredIn(s)]_vars
    /\ [](\A s \in Sessions, k \in SessKeys :
            sSess[s][k].kind = "ref" => sSess[s][k].v \notin TableObjects)

\* C14: an exception raised by a section handler is caught at the routing
\* boundary: it is logged, an error banner for that section is rendered, the
\* routing call returns normally so that the footer is rendered, and the
\* authentication state of the session is unchanged; a section name with no
\* handler renders the generic error and invokes no handler.
C14_HandlerErrorsStayInSection ==
    rpc = "done" =>
        /\ (rRoute.invoked # "none" /\ rRoute.result = "raised") =>
              /\ rRoute.banner = Banner("section error", rRoute.section)
              /\ rLog # << >>
              /\ Last(rLog) = <<"ERROR", "Error in section", rRoute.section>>
              /\ rRoute.exit = "returned"
              /\ rRoute.footer
              /\ AuthState(rSs) = rRoute.authBefore
        /\ (rRoute.section \notin
                (IF rRoute.authBefore.authentication_status = "guest"
                 THEN guest_handlers ELSE section_handlers)) =>
              /\ rRoute.invoked = "none"
              /\ rRoute.banner = Banner("unknown section", rRoute.section)
              /\ rRoute.footer

C14_Witness ==
    /\ rpc = "done"
    /\ rRoute.section = FHLB
    /\ rRoute.invoked = FHLB
    /\ rRoute.result = "raised"
    /\ rRoute.footer
    /\ get_current_user(rSs) = "uma"
    /\ Len(rLog) = 2

\* C15: a browser launched by an FHLB or Farmer Mac scrape has been quit by
\* the time the scrape returns or raises, whichever step failed; after any
\* sequence of scrapes no launched browser is left running.
C15_BrowserQuitOnEveryExit ==
    scPc \in {"idle", "after"} => scRunning = {}

C15_Witness ==
    /\ scPc = "idle"
    /\ scKind = "fhlb"
    /\ scOutcome = "raised"
    /\ scFailed = "click_tab"
    /\ scDriver = 2
    /\ scLaunched = 2

\* C16: with compression enabled, after every rollover of a log sink the file
\* just rotated out exists gzip-compressed in the 'archived' subdirectory and
\* its uncompressed rotated copy no longer exists in the log directory.
C16_RotatedFileArchived ==
    compression =>
        \A f \in lgRotated : f \in lgArchived /\ f \notin lgFiles

\* the component's value at the date, or its most recent earlier value
LastObservation(series, d) ==
    LET upto == {e \in DOMAIN series : e <= d}
    IN  IF upto = {} THEN NaN ELSE Num(series[SetMax(upto)])

RECURSIVE WeightedSum(_, _)
WeightedSum(sd, d) ==
    IF sd = << >> THEN Num(0)
    ELSE LET o == LastObservation(Head(sd).series, d)
             rest == WeightedSum(Tail(sd), d)
         IN  IF o.nan \/ rest.nan THEN NaN ELSE Num(o.v * Head(sd).w + rest.v)

\* C17: create_weighted_custom_rate returns a series indexed by exactly the
\* dates of the first component that yielded data, whose value at each date is
\* the sum over the data-bearing components of (weight/100) x the component's
\* value at the date (its most recent earlier value where it has none on that
\* date); the label joins '<weight>% <name>' for those components; the result
\* is an empty series with an empty label when no component yielded data.
C17_WeightedSeries ==
    wArgs # NoWeightedCall =>
        LET bearing == series_data(wData, wArgs)
        IN  IF bearing = << >>
            THEN wResult = WeightedResult(EmptySeries, << >>)
            ELSE /\ DOMAIN wResult.series = DOMAIN bearing[1].series
                 /\ \A d \in DOMAIN wResult.series :
                       ~WeightedSum(bearing, d).nan =>
                           wResult.series[d] = WeightedSum(bearing, d)
                 /\ Len(wResult.label) = Len(bearing)
                 /\ \A i \in 1..Len(bearing) :
                       /\ wResult.label[i].name = bearing[i].name
                       /\ wResult.label[i].shown * 10 = bearing[i].w

\* the positions of the rows whose calendar day lies in the window
InWindow(df, args) ==
    {i \in 1..Len(df) : /\ date(args.start) <= date(df[i].ts)
                        /\ date(df[i].ts) <= date(args.end)}

\* the k-th smallest element of a set of numbers
KthOf(S, k) == CHOOSE x \in S : Cardinality({y \in S : y <= x}) = k

IsDaily(df) ==
    /\ df # << >>
    /\ \A i \in 1..Len(df) : df[i].ts = Timestamp(date(df[1].ts) + i - 1, 0)

\* C20: filter_by_date_range returns exactly the rows whose calendar day d
\* satisfies start <= d <= end, in their original order, and nothing else;
\* for a daily series and a 3-day window fully inside it the result has
\* exactly 3 rows.
C20_FilterByDateRangeExact ==
    flArgs # NoFilterCall =>
        LET P == InWindow(flDf, flArgs)
        IN  /\ Len(flResult) = Cardinality(P)
            /\ \A k \in 1..Len(flResult) : flResult[k] = flDf[KthOf(P, k)]
            /\ ( /\ IsDaily(flDf)
                 /\ date(flArgs.end) = date(flArgs.start) + 2
                 /\ date(flDf[1].ts) <= date(flArgs.start)
                 /\ date(flArgs.end) <= date(flDf[Len(flDf)].ts) )
               => Len(flResult) = 3

C20_Witness ==
    /\ flDf = DailyFrame(1, DailyRows)
    /\ flArgs = [start |-> Timestamp(2, 1), end |-> Timestamp(4, 0)]
    /\ Len(flResult) = 3
    /\ flResult[1].ts = Timestamp(2, 0)

RenderedKinds == {dgRendered[i].kind : i \in 1..Len(dgRendered)}

\* C18: in the FRED view and in the Custom Rate Builder view, a date-range
\* selection whose end date precedes its start date is rejected with an inline
\* error, and no table, range chart or download action (PDF or PNG) is
\* rendered for it.
C18_ReversedRangeRejected ==
    (dgView \in {"fred", "custom"} /\ Len(dgSel) = 2 /\ dgSel[2] < dgSel[1]) =>
        /\ "error" \in RenderedKinds
        /\ RenderedKinds \cap {"dataframe", "chart", "download_pdf", "download_png"} = {}

C18_Witness ==
    /\ dgView = "custom"
    /\ dgDf = DailyFrame(1, DailyRows)
    /\ dgSel = <<4, 2>>
    /\ dgRendered = <<Element("error", "Start date must be before end date.")>>

\* the positions of the login rows of the log whose day lies in the window
LoginsInWindow ==
    {i \in 1..Len(uaLog) : /\ uaLog[i].event = "login"
                           /\ uaArgs.start <= date(uaLog[i].timestamp)
                           /\ date(uaLog[i].timestamp) <= uaArgs.end}

RECURSIVE SumOfTotals(_)
SumOfTotals(summary) ==
    IF summary = << >> THEN 0
    ELSE Head(summary).total_logins + SumOfTotals(Tail(summary))

LoginsOf(username) == Cardinality({i \in LoginsInWindow : uaLog[i].username = username})

\* C19: the analytics of a window count only the rows whose event is 'login'
\* and whose date lies in the inclusive window: total_logins is the number of
\* such rows and the sum of the per-user counts, total_users the number of
\* distinct usernames among them, the user summary is ordered by login count
\* descending, and most_active_user is a username with the maximal count
\* ('N/A' when there are none).
C19_LoginAnalytics ==
    uaArgs # NoAnalysis =>
        LET names == {uaLog[i].username : i \in LoginsInWindow}
            s == uaResult.summary
            m == uaResult.metrics
        IN  /\ Len(uaResult.filtered) = Cardinality(LoginsInWindow)
            /\ \A k \in 1..Len(uaResult.filtered) :
                  uaResult.filtered[k].event = "login"
            /\ m.total_logins = Cardinality(LoginsInWindow)
            /\ m.total_logins = SumOfTotals(s)
            /\ m.total_users = Cardinality(names)
            /\ {s[i].username : i \in 1..Len(s)} = names
            /\ \A i \in 1..Len(s) : s[i].total_logins = LoginsOf(s[i].username)
            /\ \A i, j \in 1..Len(s) : i < j => s[i].total_logins >= s[j].total_logins
            /\ IF names = {} THEN m.most_active_user = "N/A"
               ELSE /\ m.most_active_user \in names
                    /\ \A u \in names : LoginsOf(m.most_active_user) >= LoginsOf(u)

C19_Witness ==
    /\ Len(uaLog) = MaxLogRows
    /\ \A i \in 1..Len(uaLog) : uaLog[i].event = "login"
    /\ uaArgs = [start |-> 1, end |-> 2]
    /\ uaResult.metrics = Metrics(2, 4, "uma")
    /\ uaResult.summary[1].total_logins = 3

\* C21: with the impact sort order, every term whose category is not in the
\* fixed priority list comes strictly after all terms whose category is
\* listed, and listed terms are ordered by their category's position in the
\* list (Monetary Policy first, Data Source last).
C21_ImpactOrder ==
    gArgs.sort_by = "Por Impacto" =>
        \A i, j \in 1..Len(gSorted) :
            LET a == gSorted[i].category
                b == gSorted[j].category
            IN  /\ (InSeq(impact_order, a) /\ ~InSeq(impact_order, b)) => i < j
                /\ (InSeq(impact_order, a) /\ InSeq(impact_order, b) /\ i < j)
                      => IndexIn(impact_order, a) <= IndexIn(impact_order, b)

C21_Witness ==
    /\ gArgs = [selected_category |-> "Todos", search_term |-> "", sort_by |-> "Por Impacto"]
    /\ Len(gRates) = 3
    /\ gRates[1].category = "Cryptocurrency"
    /\ gRates[2].category = "Data Source"
    /\ gRates[3].category = "Monetary Policy"
    /\ Len(gSorted) = 3
    /\ gSorted[3] = gRates[1]
    /\ gSorted[1] = gRates[3]

RECURSIVE YoungerThan(_, _, _)
YoungerThan(entries, now, max_age) ==
    IF entries = << >> THEN << >>
    ELSE IF now - Head(entries).timestamp < max_age
         THEN <<Head(entries)>> \o YoungerThan(Tail(entries), now, max_age)
         ELSE YoungerThan(Tail(entries), now, max_age)

\* C22: cleanup_old_data(max_age_hours) discards exactly the notification and
\* error-history entries older than the threshold: afterwards each list holds,
\* in their original order, the prior entries whose age is less than
\* max_age_hours, so an entry added just before the call is still present.
C22_CleanupKeepsFreshEntries ==
    tCall.op = "cleanup_old_data" =>
        \A key \in TimedKeys :
            ListOf(tTable, tRef, tOwn, tCall.session, key)
                = YoungerThan(tPrev[key], tNow, tCall.arg)

\* C26: after any sequence of add_notification, clear_notifications and
\* cleanup_old_data calls in a session, the ids of the notifications in the
\* list are pairwise distinct and increase in list order.
C26_NotificationIdsIncrease ==
    \A s \in Sessions :
        LET l == ListOf(tTable, tRef, tOwn, s, "notifications")
        IN  \A i, j \in 1..Len(l) : i < j => l[i].id < l[j].id

C26_Witness ==
    /\ tCall.op = "add_notification"
    /\ tCall.session = "s1"
    /\ tRef["s1"]["notifications"] = "own"
    /\ Len(tOwn["s1"]["notifications"]) = 2
    /\ tOwn["s1"]["notifications"][2].id = 1
    /\ tOwn["s1"]["notifications"][2].timestamp = 1

\* C23: last_login is captured once per session: after the first sidebar
\* render of an authenticated session last_login holds a timestamp rather
\* than being absent (and no later render changes it).
C23_LastLoginCaptured ==
    (pc \in {"auth_content", "guest_content"} /\ is_authenticated(ss)) =>
        (Has(ss, "last_login") /\ ss.last_login = "timestamp")

\* C27: the is_guest flag is true exactly when authentication_status is
\* 'guest', in every reachable state of a session.
C27_GuestFlagMatchesStatus ==
    (Has(ss, "is_guest") /\ ss.is_guest)
        <=> (Has(ss, "authentication_status") /\ ss.authentication_status = "guest")

C27_Witness ==
    /\ pc = "guest_content"
    /\ Has(ss, "is_guest") /\ ss.is_guest
    /\ ss.authentication_status = "guest"
    /\ \E i \in 1..Len(emitted) : emitted[i] = <<"guest", "logout", 0>>

\* the rows a table should yield: (cell 0, cell 2) of the rows of three or
\* more cells whose cell 2 contains '%' and whose cell 0 is non-empty
RECURSIVE RatePairs(_)
RatePairs(rows) ==
    IF rows = << >> THEN << >>
    ELSE LET cols == Head(rows)
         IN  IF /\ Len(cols) >= 3
                /\ ContainsPercent(get_text(cols[3]))
                /\ get_text(cols[1]) # << >>
             THEN << <<get_text(cols[1]), get_text(cols[3])>> >> \o RatePairs(Tail(rows))
             ELSE RatePairs(Tail(rows))

\* C24: parse_rates returns, in document order, exactly the (cell 0, cell 2)
\* pairs of the rows after the first two whose cell 2 contains '%' and whose
\* Term is non-empty; every other row, a row with fewer than three cells
\* included, is skipped without an error.
C24_ParseRatesSkipsOtherRows ==
    (prResult # NotParsed /\ prTable # NoTable) =>
        prResult = DataFrame(RatePairs(AfterHeader(prTable)))

\* the last n elements of a sequence, all of it when it is shorter
LastN(seq, n) == IF Len(seq) <= n THEN seq ELSE SubSeq(seq, Len(seq) - n + 1, Len(seq))

\* the list after the last call has at most n elements, ends with the item
\* just added and holds the most recent elements in insertion order
TrimmedTo(n) ==
    LET l == ItemsAt(liHeap, liSt, liCall.list_key)
    IN  /\ Len(l) <= n
        /\ l # << >> /\ l[Len(l)] = liCall.item
        /\ l = LastN(Append(liPrev, liCall.item), n)

\* C25 as stated: after add_to_list(key, item, max_length=n) the list has at
\* most n elements, its last element is the item just added and the kept
\* elements are the most recent ones in insertion order, for every n >= 0
\* and any sequence of such calls.
C25_ListBoundedForEveryLength ==
    (liCall.given /\ liCall.max_length >= 0) => TrimmedTo(liCall.max_length)

\* C25, amended: the same for every n >= 1 (with max_length = 0 the list is
\* not trimmed at all).
C25_ListBoundedForPositiveLength ==
    (liCall.given /\ liCall.max_length >= 1) => TrimmedTo(liCall.max_length)

C25_Witness ==
    /\ liCall.given /\ liCall.max_length = 2
    /\ Len(liPrev) = 3
    /\ ItemsAt(liHeap, liSt, liCall.list_key) = <<liPrev[3], liCall.item>>

IsPrefix(a, b) == Len(a) <= Len(b) /\ SubSeq(b, 1, Len(a)) = a

\* C28: the activity log is append-only under any interleaving of sessions
\* constructing the AuthenticationManager and writing lines: the header is
\* the first line and occurs exactly once, and a line once present stays.
C28_ActivityLogAppendOnly ==
    [][/\ ulFile.exists => ulFile'.exists
       /\ IsPrefix(ulFile.lines, ulFile'.lines)
       /\ ulFile'.lines # << >> =>
             /\ ulFile'.lines[1] = Header
             /\ \A i \in 2..Len(ulFile'.lines) : ulFile'.lines[i] # Header]_vars

SignatureLabels == {"Name:", "Title:", "Signature:", "Date:"}

\* C29: the signature block is drawn inside the page: each of its four
\* labelled lines lies above the footer line at 30pt, on the page where the
\* table ends, and every data row is drawn at y >= 100pt.
C29_SignatureBlockOnPage ==
    \A i \in 1..Len(pdfDoc.draws) :
        LET d == pdfDoc.draws[i]
        IN  /\ d.what \in SignatureLabels => (d.y > footer_y /\ d.page = pdfDoc.page)
            /\ d.what = "row" => d.y >= 100

SetOf(seq) == {seq[i] : i \in 1..Len(seq)}

\* C30: the favorites list contains no term twice, and toggling the same
\* term twice in a row leaves the set of favorites as it was.
C30_FavoritesAreASet ==
    /\ \A i, j \in 1..Len(fvTerms) : i # j => fvTerms[i] # fvTerms[j]
    /\ (/\ fvCalls[1].op = "toggle" /\ fvCalls[2].op = "toggle"
        /\ fvCalls[1].term = fvCalls[2].term)
          => SetOf(fvTerms) = SetOf(fvBefore[1])

C30_Witness ==
    /\ fvCalls[1] = FavCall("toggle", <<"S">>)
    /\ fvCalls[2] = FavCall("toggle", <<"S">>)
    /\ fvBefore[1] = << <<"S">>, <<"P">> >>
    /\ fvTerms = << <<"P">>, <<"S">> >>

=============================================================================
